---- MODULE Spec2Model ----
(***************************************************************************)
(* Model of the ai-service resource manager (services/model_manager.py,    *)
(* class ModelManager) and of the callers that share one instance of it    *)
(* on one asyncio event loop.                                              *)
(*                                                                         *)
(* Granularity.  Every ModelManager method is a coroutine.  A coroutine    *)
(* gives the event loop the chance to run another coroutine only where an  *)
(* await really suspends.  The awaits inside load_model, unload_model,     *)
(* get_model, cleanup_unused_models and reload_model all await coroutines  *)
(* of the same class whose bodies contain no suspension point, so the body *)
(* of each method runs as one step.  What can overlap is the calls: a      *)
(* coroutine that has been created and scheduled (pc = "pending") runs its *)
(* body at some later step, after any number of steps of other callers, and*)
(* a caller that was handed a model by get_model keeps using it            *)
(* (pc = "using") for as long as it likes.                                 *)
(***************************************************************************)
EXTENDS Integers, FiniteSets, Sequences, TLC

\* ------------------------------------------------------------------ bounds
MaxTime == 1          \* the clock runs over 0..MaxTime (hours)
MaxUse == 2           \* get_model is not called on a model used MaxUse times

\* ------------------------------------------------------- program constants
MAX_MODEL_MEMORY_MB == 2048

\* --------------------------------------------------------------- universes
Tasks == {"t1", "t2"}
Names == {"university_matcher", "essay_analyzer"}

\* the max_idle_hours a sweep is called with
IdleHours == {0, 1}

\* psutil's available memory, in MB, around the budget
MemLevels == {MAX_MODEL_MEMORY_MB - 1, MAX_MODEL_MEMORY_MB, MAX_MODEL_MEMORY_MB + 1}

\* A config dict: its "type" entry ("" when the key is missing) and the other
\* keys it carries.
CfMatcher == [type |-> "collaborative_filtering", keys |-> {"features", "weights"}]
CfEssay == [type |-> "transformer", keys |-> {"model_name"}]
CfNoTarget == [type |-> "gradient_boosting", keys |-> {"features"}]
CfPredictor == [type |-> "gradient_boosting", keys |-> {"features", "target"}]
CfUnsupported == [type |-> "unsupported", keys |-> {}]
CfNoType == [type |-> "", keys |-> {"features"}]
Configs == {CfMatcher, CfEssay, CfNoTarget, CfUnsupported, CfNoType}

NoConfig == [type |-> "-", keys |-> {}]
NoModel == "None"
NoMeta == [config |-> NoConfig, loaded_at |-> -1, last_used |-> -1, usage_count |-> -1]
NotUsed == [count |-> 0, at |-> -1]
NoReq == [op |-> "-", name |-> "-", joined |-> FALSE]
\* The record of a call: the method, the name it was called on, whether its
\* config argument differs from the config stored under that name, its
\* max_idle_hours argument, the available memory its admission check read
\* (-1 when it made none), its return value, its last log line, the number of
\* models it constructed and whether it joined an overlapping load.
\* the entry of a name in the dict get_model_status returns, NoEntry for a
\* name that has no key in it
NoEntry == [loaded |-> FALSE, type |-> "-", loaded_at |-> <<>>, last_used |-> <<>>,
            usage_count |-> -1]
NoStatus == "-"
NoCall == [op |-> "-", name |-> "-", newcfg |-> FALSE, hours |-> -1, mem |-> -1,
           ret |-> "-", log |-> "-", built |-> 0, joined |-> FALSE]

VARIABLES
    loaded_models,    \* name -> the model object (its "type" tag), NoModel when the key is absent
    model_metadata,   \* name -> metadata dict, NoMeta when the key is absent
    now,              \* datetime.utcnow(), in hours
    pc,               \* task -> "idle" | "pending" | "using"
    req,              \* task -> the call whose coroutine it has created and not yet run
    last,             \* the call whose body ran in the step into this state (NoCall when none did)
    built,            \* name -> models constructed under that name since it was last not loaded
    used,             \* name -> how many get_model calls returned the model since it was
                      \*         constructed, and the time of the latest (-1 when none)
    status,           \* the dict the get_model_status call of this step returned
                      \*         (NoStatus when the step was no such call)
    \* one UniversityMatcher object (services/university_matcher.py)
    university_data,      \* None, or the DataFrame (its rows) and the build that made it
    university_tfidf,     \* Unset while the attribute does not exist, else the
                          \*   content vectors and the build that made them
    university_numerical, \* Unset while the attribute does not exist, else the
                          \*   numeric vectors and the build that made them
    matcher_weights,      \* the feature_weights attribute of the matcher
    mlast,                \* the matcher call of the step into this state and
                          \*   what it returned (NoMCall when none ran)
    \* the cache and the matching handlers (routes/matching.py, utils/cache.py)
    redis_store,          \* key -> the value Redis holds under it, NoValue when none
    handler,              \* task -> the request it is handling and how far it is
    clast,                \* the cache routine called in the step into this state
    boot                  \* the initialize call of the running application

mgrvars == <<loaded_models, model_metadata, now, pc, req, last, built, used, status>>
idxvars == <<university_data, university_tfidf, university_numerical, matcher_weights>>
cachevars == <<redis_store, handler, clast>>
vars == <<mgrvars, idxvars, mlast, cachevars, boot>>

Loaded(lm) == {n \in Names : lm[n] # NoModel}
HasMeta(md) == {n \in Names : md[n] # NoMeta}

\* ------------------------------------------------------------ model loaders

\* None when from_pretrained or pipeline raises (hub_ok = FALSE), else the
\* dict tagged "transformer".
_load_transformer_model(config, hub_ok) ==
    IF hub_ok THEN "transformer" ELSE NoModel

\* config["features"], config["weights"] raise KeyError when missing, which the
\* loader turns into None.
_load_collaborative_filtering_model(config) ==
    IF {"features", "weights"} \subseteq config.keys THEN "collaborative_filtering" ELSE NoModel

\* config["features"], config["target"]
_load_gradient_boosting_model(config) ==
    IF {"features", "target"} \subseteq config.keys THEN "gradient_boosting" ELSE NoModel

\* the admission check letting a load through at exactly the budget
_check_memory_availability_ge(available_mb) == available_mb >= MAX_MODEL_MEMORY_MB

_check_memory_availability(available_mb) == available_mb > MAX_MODEL_MEMORY_MB

\* ---------------------------------------------------------------- methods
\* Each method is an operator from the manager's two dicts (and the inputs it
\* reads) to: the dicts it leaves, its return value, its last log line, the
\* number of models it constructed and the names it deleted from the dicts.

Outcome(lm, md, r, l, b, d) ==
    [lm |-> lm, md |-> md, ret |-> r, log |-> l, built |-> b, dropped |-> d]

\* load_model from its admission check on: the check, the dispatch on
\* config["type"] (a missing key raises KeyError, caught by load_model's except)
\* and the registration of the constructed model
admit_and_construct(lm, md, model_name, config, available_mb, hub_ok, utcnow) ==
    IF ~_check_memory_availability(available_mb)
    THEN Outcome(lm, md, "False", "Insufficient memory to load model", 0, {})
    ELSE IF config.type = ""
    THEN Outcome(lm, md, "False", "Failed to load model", 0, {})
    ELSE IF config.type \notin {"transformer", "collaborative_filtering", "gradient_boosting"}
    THEN Outcome(lm, md, "False", "Unknown model type", 0, {})
    ELSE LET model == CASE config.type = "transformer" ->
                               _load_transformer_model(config, hub_ok)
                        [] config.type = "collaborative_filtering" ->
                               _load_collaborative_filtering_model(config)
                        [] config.type = "gradient_boosting" ->
                               _load_gradient_boosting_model(config)
         IN IF model # NoModel
            THEN Outcome([lm EXCEPT ![model_name] = model],
                         [md EXCEPT ![model_name] = [config |-> config, loaded_at |-> utcnow,
                                                      last_used |-> utcnow, usage_count |-> 0]],
                         "True", "Successfully loaded model", 1, {})
            ELSE Outcome(lm, md, "False", "Failed to load", 0, {})

\* load_model without its test for a name that is already loaded
load_model_nocheck(lm, md, model_name, config, available_mb, hub_ok, utcnow) ==
    admit_and_construct(lm, md, model_name, config, available_mb, hub_ok, utcnow)

\* load_model writing the metadata entry before it knows the model was constructed
load_model_eager(lm, md, model_name, config, available_mb, hub_ok, utcnow) ==
    IF lm[model_name] # NoModel
    THEN Outcome(lm, md, "True", "already loaded", 0, {})
    ELSE LET o == admit_and_construct(lm, md, model_name, config, available_mb, hub_ok, utcnow)
         IN IF o.log = "Failed to load"
            THEN Outcome(lm,
                         [md EXCEPT ![model_name] = [config |-> config, loaded_at |-> utcnow,
                                                      last_used |-> utcnow, usage_count |-> 0]],
                         "False", o.log, 0, {})
            ELSE o

\* load_model storing the new config over the one of a name that is already loaded
load_model_overwrite(lm, md, model_name, config, available_mb, hub_ok, utcnow) ==
    IF lm[model_name] # NoModel
    THEN Outcome(lm, [md EXCEPT ![model_name] = [@ EXCEPT !.config = config]],
                 "True", "already loaded", 0, {})
    ELSE admit_and_construct(lm, md, model_name, config, available_mb, hub_ok, utcnow)

load_model(lm, md, model_name, config, available_mb, hub_ok, utcnow) ==
    IF lm[model_name] # NoModel
    THEN Outcome(lm, md, "True", "already loaded", 0, {})
    ELSE admit_and_construct(lm, md, model_name, config, available_mb, hub_ok, utcnow)

\* get_model losing the increment of a model that was used before
get_model_lost(lm, md, model_name, utcnow) ==
    IF lm[model_name] = NoModel
    THEN Outcome(lm, md, NoModel, "not loaded", 0, {})
    ELSE Outcome(lm,
                 [md EXCEPT ![model_name] = [@ EXCEPT !.last_used = utcnow,
                                                      !.usage_count = IF @ = 0 THEN 1 ELSE @]],
                 lm[model_name], "", 0, {})

\* get_model leaving last_used as it was
get_model_stale(lm, md, model_name, utcnow) ==
    IF lm[model_name] = NoModel
    THEN Outcome(lm, md, NoModel, "not loaded", 0, {})
    ELSE Outcome(lm,
                 [md EXCEPT ![model_name] = [@ EXCEPT !.usage_count = @ + 1]],
                 lm[model_name], "", 0, {})

get_model(lm, md, model_name, utcnow) ==
    IF lm[model_name] = NoModel
    THEN Outcome(lm, md, NoModel, "not loaded", 0, {})
    ELSE Outcome(lm,
                 [md EXCEPT ![model_name] = [@ EXCEPT !.last_used = utcnow,
                                                      !.usage_count = @ + 1]],
                 lm[model_name], "", 0, {})

\* unload_model deleting the model and leaving its metadata entry
unload_model_keepmeta(lm, md, model_name) ==
    IF lm[model_name] = NoModel
    THEN Outcome(lm, md, "False", "", 0, {})
    ELSE Outcome([lm EXCEPT ![model_name] = NoModel], md, "True", "Unloaded model", 0,
                 {model_name})

unload_model(lm, md, model_name) ==
    IF lm[model_name] = NoModel
    THEN Outcome(lm, md, "False", "", 0, {})
    ELSE Outcome([lm EXCEPT ![model_name] = NoModel],
                 [md EXCEPT ![model_name] = NoMeta],
                 "True", "Unloaded model", 0, {model_name})

\* the first loop of cleanup_unused_models collecting a model idle for exactly
\* max_idle_hours too
models_to_unload_ge(md, max_idle_hours, current_time) ==
    {n \in HasMeta(md) : current_time - md[n].last_used >= max_idle_hours}

\* the first loop of cleanup_unused_models
models_to_unload(md, max_idle_hours, current_time) ==
    {n \in HasMeta(md) : current_time - md[n].last_used > max_idle_hours}

\* the second loop of cleanup_unused_models: unload_model on each collected name
RECURSIVE unload_each(_, _, _)
unload_each(lm, md, todo) ==
    IF todo = {}
    THEN Outcome(lm, md, "None", "", 0, {})
    ELSE LET n == CHOOSE x \in todo : TRUE
             u == unload_model(lm, md, n)
             r == unload_each(u.lm, u.md, todo \ {n})
         IN Outcome(r.lm, r.md, "None", "Cleaned up unused model", 0, u.dropped \cup r.dropped)

cleanup_unused_models(lm, md, max_idle_hours, utcnow) ==
    unload_each(lm, md, models_to_unload(md, max_idle_hours, utcnow))

\* reload_model loading the configured default instead of the stored config
reload_model_default(lm, md, model_name, available_mb, hub_ok, utcnow) ==
    IF md[model_name] = NoMeta
    THEN Outcome(lm, md, "False", "not found", 0, {})
    ELSE LET u == unload_model(lm, md, model_name)
             l == load_model(u.lm, u.md, model_name, CfMatcher, available_mb, hub_ok, utcnow)
         IN Outcome(l.lm, l.md, l.ret, l.log, l.built, u.dropped)

\* reload_model putting the old model and metadata back when the load fails
reload_model_restoring(lm, md, model_name, available_mb, hub_ok, utcnow) ==
    IF md[model_name] = NoMeta
    THEN Outcome(lm, md, "False", "not found", 0, {})
    ELSE LET config == md[model_name].config
             u == unload_model(lm, md, model_name)
             l == load_model(u.lm, u.md, model_name, config, available_mb, hub_ok, utcnow)
         IN IF l.ret = "True" THEN Outcome(l.lm, l.md, l.ret, l.log, l.built, u.dropped)
            ELSE Outcome(lm, md, l.ret, l.log, 0, {})

reload_model(lm, md, model_name, available_mb, hub_ok, utcnow) ==
    IF md[model_name] = NoMeta
    THEN Outcome(lm, md, "False", "not found", 0, {})
    ELSE LET config == md[model_name].config
             u == unload_model(lm, md, model_name)
             l == load_model(u.lm, u.md, model_name, config, available_mb, hub_ok, utcnow)
         IN Outcome(l.lm, l.md, l.ret, l.log, l.built, u.dropped)

\* datetime.isoformat(): the text of a time, not the time
isoformat(t) == <<"T", t>>

\* get_model_status with a side effect: reporting counts as a use
get_model_status_touch(lm, md) ==
    [out |-> Outcome(lm, [n \in Names |->
                             IF md[n] = NoMeta THEN NoMeta
                             ELSE [md[n] EXCEPT !.usage_count = @ + 1]],
                     "dict", "-", 0, {}),
     status |-> [n \in Names |->
                    IF md[n] = NoMeta THEN NoEntry
                    ELSE [loaded |-> TRUE, type |-> md[n].config.type,
                          loaded_at |-> isoformat(md[n].loaded_at),
                          last_used |-> isoformat(md[n].last_used),
                          usage_count |-> md[n].usage_count]]]

\* get_model_status: one entry per key of model_metadata, built from that
\* metadata; neither dict is written.
get_model_status(lm, md) ==
    [out |-> Outcome(lm, md, "dict", "-", 0, {}),
     status |-> [n \in Names |->
                    IF md[n] = NoMeta THEN NoEntry
                    ELSE [loaded |-> TRUE, type |-> md[n].config.type,
                          loaded_at |-> isoformat(md[n].loaded_at),
                          last_used |-> isoformat(md[n].last_used),
                          usage_count |-> md[n].usage_count]]]

\* ================================================================ matcher
\* services/university_matcher.py, class UniversityMatcher.
\*
\* Numbers.  The matcher computes in floats; the model computes the same
\* expressions in exact fractions <<numerator, denominator>> in lowest terms
\* with a positive denominator, so that equal values are equal tuples.

Abs(i) == IF i < 0 THEN -i ELSE i

RECURSIVE Gcd(_, _)
Gcd(a, b) == IF b = 0 THEN a ELSE Gcd(b, a % b)

Q(n, d) ==
    LET g == Gcd(Abs(n), Abs(d))
        sg == IF d < 0 THEN -1 ELSE 1
    IN <<(sg * n) \div g, (sg * d) \div g>>

QInt(i) == <<i, 1>>
QAdd(a, b) ==
    LET l == (a[2] \div Gcd(a[2], b[2])) * b[2]
    IN Q(a[1] * (l \div a[2]) + b[1] * (l \div b[2]), l)
QNeg(a) == <<-a[1], a[2]>>
QSub(a, b) == QAdd(a, QNeg(b))
QMul(a, b) ==
    LET g1 == Gcd(Abs(a[1]), b[2])
        g2 == Gcd(Abs(b[1]), a[2])
    IN Q((a[1] \div g1) * (b[1] \div g2), (a[2] \div g2) * (b[2] \div g1))
\* a / b for b # 0
QDiv(a, b) == QMul(a, Q(b[2], b[1]))
QLe(a, b) == a[1] * b[2] <= b[1] * a[2]
QLt(a, b) == a[1] * b[2] < b[1] * a[2]
QMin(a, b) == IF QLt(b, a) THEN b ELSE a
QMax(a, b) == IF QLt(a, b) THEN b ELSE a

RECURSIVE QSum(_)
QSum(qs) == IF qs = <<>> THEN QInt(0) ELSE QAdd(qs[1], QSum(Tail(qs)))

\* Python's None, and the test "x is None"
None == <<>>

\* Strings.  A string is the sequence of its words; the words of the model
\* are chosen so that none occurs inside another, which makes Python's
\* substring test "a in b" the test that a's words occur in b in a row.
\* str.lower() on a word:
lower_word(w) ==
    CASE w = "CS" -> "cs"
      [] w = "MA" -> "ma"
      [] w = "USA" -> "usa"
      [] w = "Boston" -> "boston"
      [] OTHER -> w

lower(str) == [i \in 1..Len(str) |-> lower_word(str[i])]

\* a in b
contains(a, b) ==
    \E k \in 0..(Len(b) - Len(a)) : \A i \in 1..Len(a) : b[k + i] = a[i]

\* ' '.join(strs)
RECURSIVE join(_)
join(strs) == IF strs = <<>> THEN <<>> ELSE strs[1] \o join(Tail(strs))

\* ------------------------------------------------------ catalog and inputs
MaxCatalog == 2       \* initialize is called with at most MaxCatalog universities

\* A dict entry that may be missing is a tuple: <<>> when the key is absent,
\* <<v>> when it is present with value v.
Absent == <<>>
Has(e) == e # <<>>
Get(e, default) == IF e = <<>> THEN default ELSE e[1]

\* One university dict, as the route's catalogs write them: every top-level
\* key present.
University(id, name, city, state, country, programs, minGPA, sat_min, overall, acceptance_rate, tuition, student_count) ==
    [id |-> id, name |-> name,
     location |-> [city |-> city, state |-> state, country |-> country],
     programs |-> programs,
     admission_requirements |-> [minGPA |-> minGPA, testScores |-> [SAT |-> sat_min, GRE |-> Absent]],
     ranking |-> [overall |-> overall],
     metadata |-> [acceptance_rate |-> acceptance_rate, tuition |-> tuition,
                   student_count |-> student_count]]

PrCS == [name |-> <<"cs">>, department |-> <<"engineering">>]
PrBio == [name |-> <<"biology">>, department |-> <<"science">>]

\* a technical school in Boston; acceptance rate and size vary
Tech(id, acceptance_rate, student_count) ==
    University(id, <<"tech">>, <<"Boston">>, <<"MA">>, <<"USA">>, <<PrCS>>,
               Q(30, 10), <<1200>>, 50, acceptance_rate, 20000, student_count)

U1 == Tech("u1", Q(1, 2), 10000)
\* the same school under another id
U2 == Tech("u2", Q(1, 2), 10000)
U3 == University("u3", <<"college">>, <<"austin">>, <<"tx">>, <<"USA">>, <<PrBio>>,
                 Q(37, 10), <<1500>>, 20, Q(1, 5), 40000, 30000)
\* no programs listed, no test requirement, abroad
U4 == University("u4", <<"institute">>, <<"paris">>, <<>>, <<"france">>, <<>>,
                 Q(40, 10), Absent, 5, Q(1, 20), 60000, 4000)
Pool == {U1, U2, U3, U4}

\* Scenario C's catalog: 2 safety, 3 target, 1 reach for a strong applicant
ScenarioC == <<Tech("t1", Q(1, 5), 10000), Tech("s1", Q(1, 2), 30000),
               Tech("r1", Q(1, 10), 10000), Tech("t2", Q(1, 5), 10000),
               Tech("s2", Q(1, 2), 10000), Tech("t3", Q(1, 5), 10000)>>

Ids(data) == {data[i].id : i \in 1..Len(data)}

\* the lists initialize is called with: universities with distinct ids
Catalogs ==
    {c \in UNION {[1..k -> Pool] : k \in 0..MaxCatalog} : Cardinality(Ids(c)) = Len(c)}
    \cup {ScenarioC}

\* The student_data dict the route builds from a validated StudentProfile:
\* every key present; gpa None or in [0, 4]; test_scores any dict.
Profile(gpa, sat, academic_interests, target_programs, location_preferences, financial_constraints, extracurriculars) ==
    [gpa |-> gpa, test_scores |-> [SAT |-> sat, GRE |-> Absent],
     academic_interests |-> academic_interests, target_programs |-> target_programs,
     location_preferences |-> location_preferences,
     financial_constraints |-> financial_constraints,
     extracurriculars |-> extracurriculars]

\* a financial_constraints dict: its max_annual_cost entry and whether it has
\* other keys
Budget(max_annual_cost, others) == [max_annual_cost |-> max_annual_cost, others |-> others]

\* strong and complete
PStrong == Profile(Q(39, 10), <<[total |-> <<1400>>]>>, <<<<"CS">>>>, <<>>, <<<<"MA">>>>,
                   <<Budget(<<40000>>, FALSE)>>, <<<<"chess">>>>)
\* only the required student_id was sent: every optional field at its default
PBare == Profile(None, Absent, <<>>, <<>>, <<>>, None, <<>>)
\* a gpa and nothing else
PGpaOnly == Profile(Q(30, 10), Absent, <<>>, <<>>, <<>>, None, <<>>)
\* on a budget, with interests no catalog entry lists and a country-wide preference
PBudget == Profile(Q(36, 10), <<[total |-> Absent]>>, <<<<"art">>>>, <<<<"biology">>>>,
                   <<<<"in", "USA">>>>, <<Budget(<<30000>>, FALSE)>>, <<>>)
\* gpa 0.0 and a negative test total: test_scores is Dict[str, Any]
PNegative == Profile(Q(0, 1), <<[total |-> <<-1200>>]>>, <<>>, <<>>, <<>>,
                     <<Budget(Absent, FALSE)>>, <<>>)
\* a gpa and a preference for the state of the technical schools
PLocal == Profile(Q(30, 10), Absent, <<>>, <<>>, <<<<"MA">>>>, None, <<>>)
\* financial constraints that name no max_annual_cost
PUnpriced == Profile(Q(30, 10), Absent, <<>>, <<>>, <<>>, <<Budget(Absent, TRUE)>>, <<>>)
\* nothing to spend
PZeroBudget == Profile(Q(30, 10), Absent, <<>>, <<>>, <<>>, <<Budget(<<0>>, FALSE)>>, <<>>)
Profiles == {PStrong, PBare, PGpaOnly, PBudget, PNegative, PLocal, PUnpriced, PZeroBudget}

\* ------------------------------------------------------------ the index
\* university_data: the build (call of initialize) that assigned it, 0 while
\* it is None, and the rows of the DataFrame.
NoData == [build |-> 0, rows |-> <<>>]
\* university_tfidf, university_numerical: __init__ does not create these
\* attributes; Unset is the attribute not existing.
Unset == [build |-> 0, rows |-> <<>>]
\* a matcher object is initialized at most twice: a build and a rebuild
Builds == {1, 2}

\* _preprocess_university_data, lines 48-64: the descriptor of a university
text_feature(uni) ==
    uni.name \o uni.location.city \o uni.location.state
    \o join([i \in 1..Len(uni.programs) |->
                uni.programs[i].name \o uni.programs[i].department])
    \o <<"ranking_" \o ToString(uni.ranking.overall)>>

\* TfidfVectorizer.fit_transform: the text is lower-cased and split into
\* words, the vocabulary is the words of all texts, and a row has one weight
\* per vocabulary word.  The weight is the word's count in the text; the
\* corpus-wide idf factor of the word is left out.
fit_transform_tfidf(text_features) ==
    LET words == [i \in 1..Len(text_features) |-> lower(text_features[i])]
        vocabulary == UNION {{words[i][k] : k \in 1..Len(words[i])} : i \in 1..Len(words)}
    IN [i \in 1..Len(words) |->
           [w \in vocabulary |-> Cardinality({k \in 1..Len(words[i]) : words[i][k] = w})]]

\* lines 73-78: the numeric tuple of a university
numerical_feature(uni) ==
    <<QInt(uni.ranking.overall), uni.metadata.acceptance_rate,
      QInt(uni.metadata.tuition), QInt(uni.metadata.student_count)>>

\* StandardScaler.fit_transform: each column is centred on its mean.  The
\* model keeps n * (x - mean) and leaves out the division by the column's
\* deviation (by 1 when the deviation is 0).
fit_transform_scaler(numerical_features) ==
    LET n == Len(numerical_features)
        sum(c) == QSum([i \in 1..n |-> numerical_features[i][c]])
    IN [i \in 1..n |->
           [c \in 1..4 |-> QSub(QMul(QInt(n), numerical_features[i][c]), sum(c))]]

\* initialize(university_data) with no student_profiles: the three attributes
\* after the call.  An attribute whose list of features is empty is not
\* assigned.
initialize(data, tfidf, numerical, catalog) ==
    LET build == data.build + 1
        text_features == [i \in 1..Len(catalog) |-> text_feature(catalog[i])]
        numerical_features == [i \in 1..Len(catalog) |-> numerical_feature(catalog[i])]
    IN [data |-> [build |-> build, rows |-> catalog],
        tfidf |-> IF text_features # <<>>
                  THEN [build |-> build, rows |-> fit_transform_tfidf(text_features)]
                  ELSE tfidf,
        numerical |-> IF numerical_features # <<>>
                      THEN [build |-> build, rows |-> fit_transform_scaler(numerical_features)]
                      ELSE numerical]

\* ---------------------------------------------------------- factor scores
\* A factor routine returns one score per row, or raises: the result is
\* [raised |-> the exception's name ("" when none), scores |-> the list].
Returned(scores) == [raised |-> "", scores |-> scores]
Raised(exception) == [raised |-> exception, scores |-> <<>>]

\* the result of a loop that computes one value per row and stops at the
\* first row that raises; each(i) is [raised, score] for row i
PerRow(n, each(_)) ==
    IF \E i \in 1..n : each(i).raised # ""
    THEN Raised(each(CHOOSE i \in 1..n :
                        /\ each(i).raised # ""
                        /\ \A j \in 1..(i - 1) : each(j).raised = "").raised)
    ELSE Returned([i \in 1..n |-> each(i).score])

Score(q) == [raised |-> "", score |-> q]
Throw(exception) == [raised |-> exception, score |-> QInt(0)]

\* min(1.0, student / minimum) if minimum > 0 else 0.8
test_ratio(student, minimum) ==
    IF minimum > 0 THEN QMin(QInt(1), Q(student, minimum)) ELSE Q(8, 10)

\* academic_fit without the penalty for a gpa below the minimum
academic_fit_nopenalty(student_gpa, student_test_scores, university) ==
    LET admission_req == university.admission_requirements
        min_gpa == admission_req.minGPA
        test_requirements == admission_req.testScores
        gpa_score == IF QLe(min_gpa, student_gpa)
                     THEN QMin(QInt(1), QDiv(student_gpa, min_gpa))
                     ELSE QDiv(student_gpa, min_gpa)
        sat == Has(student_test_scores.SAT) /\ Has(test_requirements.SAT)
        gre == Has(student_test_scores.GRE) /\ Has(test_requirements.GRE)
        sat_score == test_ratio(Get(student_test_scores.SAT[1].total, 1200),
                                test_requirements.SAT[1])
        gre_score == test_ratio(Get(student_test_scores.GRE[1].total, 300),
                                test_requirements.GRE[1])
        test_score == QAdd(IF sat THEN sat_score ELSE QInt(0),
                           IF gre THEN gre_score ELSE QInt(0))
        test_factors == (IF sat THEN 1 ELSE 0) + (IF gre THEN 1 ELSE 0)
        comparable == /\ Has(student_test_scores.SAT) \/ Has(student_test_scores.GRE)
                      /\ Has(test_requirements.SAT) \/ Has(test_requirements.GRE)
                      /\ test_factors > 0
        score == QAdd(QMul(gpa_score, Q(6, 10)),
                      IF comparable
                      THEN QMul(QDiv(test_score, QInt(test_factors)), Q(4, 10))
                      ELSE QInt(0))
        factors == IF comparable THEN QInt(1) ELSE Q(6, 10)
    IN IF student_gpa = None THEN Throw("TypeError")
       ELSE IF min_gpa[1] = 0 THEN Throw("ZeroDivisionError")
       ELSE Score(QDiv(score, factors))

\* lines 187-232, one university
academic_fit(student_gpa, student_test_scores, university) ==
    LET admission_req == university.admission_requirements
        min_gpa == admission_req.minGPA
        test_requirements == admission_req.testScores
        gpa_score == IF QLe(min_gpa, student_gpa)
                     THEN QMin(QInt(1), QDiv(student_gpa, min_gpa))
                     ELSE QMul(QDiv(student_gpa, min_gpa), Q(5, 10))
        sat == Has(student_test_scores.SAT) /\ Has(test_requirements.SAT)
        gre == Has(student_test_scores.GRE) /\ Has(test_requirements.GRE)
        sat_score == test_ratio(Get(student_test_scores.SAT[1].total, 1200),
                                test_requirements.SAT[1])
        gre_score == test_ratio(Get(student_test_scores.GRE[1].total, 300),
                                test_requirements.GRE[1])
        test_score == QAdd(IF sat THEN sat_score ELSE QInt(0),
                           IF gre THEN gre_score ELSE QInt(0))
        test_factors == (IF sat THEN 1 ELSE 0) + (IF gre THEN 1 ELSE 0)
        comparable == /\ Has(student_test_scores.SAT) \/ Has(student_test_scores.GRE)
                      /\ Has(test_requirements.SAT) \/ Has(test_requirements.GRE)
                      /\ test_factors > 0
        score == QAdd(QMul(gpa_score, Q(6, 10)),
                      IF comparable
                      THEN QMul(QDiv(test_score, QInt(test_factors)), Q(4, 10))
                      ELSE QInt(0))
        factors == IF comparable THEN QInt(1) ELSE Q(6, 10)
    IN IF student_gpa = None THEN Throw("TypeError")
       ELSE IF min_gpa[1] = 0 THEN Throw("ZeroDivisionError")
       ELSE Score(QDiv(score, factors))

_calculate_academic_fit(student_profile, rows) ==
    LET each(i) == academic_fit(student_profile.gpa, student_profile.test_scores, rows[i])
    IN PerRow(Len(rows), each)

\* lines 249-273, one university
interest_alignment(terms, university) ==
    LET programs == university.programs
        uni_text == lower(join([i \in 1..Len(programs) |-> programs[i].name]
                               \o [i \in 1..Len(programs) |-> programs[i].department]))
        matches == Cardinality({i \in 1..Len(terms) : contains(lower(terms[i]), uni_text)})
        score == IF programs # <<>>
                 THEN (IF Len(terms) > 0 THEN Q(matches, Len(terms)) ELSE Q(5, 10))
                 ELSE Q(3, 10)
    IN QMin(QInt(1), score)

_calculate_interest_alignment(student_profile, rows) ==
    LET student_interests == student_profile.academic_interests
        student_programs == student_profile.target_programs
    IN IF student_interests = <<>> /\ student_programs = <<>>
       THEN Returned([i \in 1..Len(rows) |-> Q(5, 10)])
       ELSE Returned([i \in 1..Len(rows) |->
                         interest_alignment(student_interests \o student_programs, rows[i])])

\* lines 286-310, one university
location_preference(location_prefs, university) ==
    LET uni_city == lower(university.location.city)
        uni_state == lower(university.location.state)
        uni_country == lower(university.location.country)
        prefs == {lower(location_prefs[i]) : i \in 1..Len(location_prefs)}
    IN IF \E pref_lower \in prefs : \/ contains(pref_lower, uni_city)
                                    \/ contains(pref_lower, uni_state)
                                    \/ contains(pref_lower, uni_country)
       THEN QInt(1)
       ELSE IF /\ \E pref_lower \in prefs : \/ contains(<<"usa">>, pref_lower)
                                            \/ contains(<<"united", "states">>, pref_lower)
               /\ uni_country = <<"usa">>
       THEN Q(6, 10)
       ELSE Q(3, 10)

_calculate_location_preference(student_profile, rows) ==
    LET location_prefs == student_profile.location_preferences
    IN IF location_prefs = <<>>
       THEN Returned([i \in 1..Len(rows) |-> Q(7, 10)])
       ELSE Returned([i \in 1..Len(rows) |-> location_preference(location_prefs, rows[i])])

\* lines 325-335, one university
financial_fit(max_budget, university) ==
    LET tuition == university.metadata.tuition
    IN IF tuition <= max_budget
       THEN IF max_budget = 0 THEN Throw("ZeroDivisionError")
            ELSE Score(QMin(QInt(1),
                            QSub(QInt(1), QMul(Q(tuition, max_budget), Q(3, 10)))))
       ELSE IF tuition = 0 THEN Throw("ZeroDivisionError")
            ELSE Score(QMin(QInt(1), QMax(Q(1, 10), Q(max_budget, tuition))))

_calculate_financial_fit(student_profile, rows) ==
    LET financial_constraints == student_profile.financial_constraints
        empty == \/ financial_constraints = None
                 \/ /\ ~Has(financial_constraints[1].max_annual_cost)
                    /\ ~financial_constraints[1].others
        each(i) == financial_fit(Get(financial_constraints[1].max_annual_cost, 100000), rows[i])
    IN IF empty
       THEN Returned([i \in 1..Len(rows) |-> Q(7, 10)])
       ELSE PerRow(Len(rows), each)

\* lines 347-358, one university
cultural_fit(university) ==
    LET student_count == university.metadata.student_count
    IN IF student_count < 5000 THEN Q(8, 10)
       ELSE IF student_count < 20000 THEN Q(9, 10)
       ELSE Q(7, 10)

_calculate_cultural_fit(student_profile, rows) ==
    Returned([i \in 1..Len(rows) |-> cultural_fit(rows[i])])

\* ------------------------------------------------------------ find_matches
\* MODEL_CONFIGS["university_matcher"]["weights"], in the order academic_fit,
\* interest_alignment, location_preference, financial_fit
MODEL_CONFIGS_weights == <<Q(40, 100), Q(35, 100), Q(15, 100), Q(10, 100)>>

\* weights that give cultural_fit 0.15
feature_weights_heavy == <<Q(35, 100), Q(25, 100), Q(15, 100), Q(15, 100), Q(15, 100)>>

\* feature_weights as __init__ sets them, in the order academic_fit,
\* interest_alignment, location_preference, financial_fit, cultural_fit
feature_weights == <<Q(35, 100), Q(25, 100), Q(15, 100), Q(15, 100), Q(10, 100)>>

\* np.var: the mean of the squared distances to the mean
var(xs) ==
    LET n == QInt(Len(xs))
        mean == QDiv(QSum(xs), n)
    IN QDiv(QSum([i \in 1..Len(xs) |-> QMul(QSub(xs[i], mean), QSub(xs[i], mean))]), n)

\* Python's truth test of a gpa: None and 0.0 are false
Truthy(gpa) == gpa # None /\ gpa[1] # 0

_calculate_confidence(student_profile, university, component_scores) ==
    LET student_completeness ==
            QSum(<<IF Truthy(student_profile.gpa) THEN Q(3, 10) ELSE QInt(0),
                   IF Has(student_profile.test_scores.SAT) \/ Has(student_profile.test_scores.GRE)
                   THEN Q(3, 10) ELSE QInt(0),
                   IF student_profile.academic_interests # <<>> THEN Q(2, 10) ELSE QInt(0),
                   IF student_profile.extracurriculars # <<>> THEN Q(2, 10) ELSE QInt(0)>>)
        \* every university of the model has admission_requirements and metadata
        uni_completeness ==
            QSum(<<Q(4, 10),
                   IF university.programs # <<>> THEN Q(3, 10) ELSE QInt(0),
                   Q(3, 10)>>)
        score_variance == var(component_scores)
        consistency_factor == QMax(Q(5, 10), QSub(QInt(1), score_variance))
        confidence == QMul(QDiv(QAdd(student_completeness, uni_completeness), QInt(2)),
                           consistency_factor)
    IN QMin(QInt(1), confidence)

\* The weighted score is a double.  The sum of five products whose exact
\* value is 0.8 can come out one unit in the last place below it
\* (1.0 * 0.35 + 0.5 * 0.25 + 1.0 * 0.15 + 0.7 * 0.15 + 0.7 * 0.10 is
\* 0.7999999999999999), and that double times 100 is again the double 80.0.
\* A score is carried as its exact value and whether its double is below it;
\* which sums come out below is left open.  (The double below 0.6 times 100
\* stays below 60.0: nothing is left open at the lower threshold.)
Double(value, below) == [value |-> value, below |-> below]
\* match_score >= 0.8
AtLeast08(match_score) ==
    QLt(Q(8, 10), match_score.value) \/ (match_score.value = Q(8, 10) /\ ~match_score.below)

_determine_category(student_profile, university, match_score) ==
    LET acceptance_rate == university.metadata.acceptance_rate
    IN IF AtLeast08(match_score) /\ QLe(Q(3, 10), acceptance_rate) THEN "safety"
       ELSE IF QLe(Q(6, 10), match_score.value) /\ QLe(Q(15, 100), acceptance_rate) THEN "target"
       ELSE "reach"

\* _estimate_cost: its net_cost entry
_estimate_cost(university, student_profile) ==
    LET base_tuition == QInt(university.metadata.tuition)
        room_board == QMul(base_tuition, Q(3, 10))
        total_cost == QSum(<<base_tuition, room_board, QInt(2000), QInt(3000)>>)
        student_gpa == student_profile.gpa
        estimated_aid == IF QLe(Q(38, 10), student_gpa) THEN QMul(total_cost, Q(3, 10))
                         ELSE IF QLe(Q(35, 10), student_gpa) THEN QMul(total_cost, Q(2, 10))
                         ELSE QInt(0)
    IN IF student_gpa = None THEN Throw("TypeError")
       ELSE Score(QMax(QInt(0), QSub(total_cost, estimated_aid)))

\* x clamped as min(100.0, max(0.0, x * 100))
percent(x) == QMin(QInt(100), QMax(QInt(0), QMul(x, QInt(100))))

\* A request's filters dict: the keys it has and their values.  A dict with no
\* key and None are the same to "if filters".
Filters(keys, categories, min_match_percentage, max_cost) ==
    [keys |-> keys, categories |-> categories,
     min_match_percentage |-> min_match_percentage, max_cost |-> max_cost]
NoFilters == Filters({}, {}, QInt(0), QInt(0))

\* the list comprehension [m for m in matches if keep(m)]
RECURSIVE Kept(_, _)
Kept(matches, flags) ==
    IF matches = <<>> THEN <<>>
    ELSE (IF Head(flags) THEN <<Head(matches)>> ELSE <<>>)
         \o Kept(Tail(matches), Tail(flags))

Select(matches, keep(_)) ==
    Kept(matches, [i \in 1..Len(matches) |-> keep(matches[i])])

\* _apply_filters without its cost filter
_apply_filters_nocost(matches, filters) ==
    LET in_category(m) == m.category \in filters.categories
        above(m) == QLe(filters.min_match_percentage, m.match_percentage)
        by_category == IF "categories" \in filters.keys
                       THEN Select(matches, in_category) ELSE matches
    IN IF "min_match_percentage" \in filters.keys
       THEN Select(by_category, above) ELSE by_category

_apply_filters(matches, filters) ==
    LET in_category(m) == m.category \in filters.categories
        above(m) == QLe(filters.min_match_percentage, m.match_percentage)
        affordable(m) == QLe(m.net_cost, filters.max_cost)
        by_category == IF "categories" \in filters.keys
                       THEN Select(matches, in_category) ELSE matches
        by_percentage == IF "min_match_percentage" \in filters.keys
                         THEN Select(by_category, above) ELSE by_category
    IN IF "max_cost" \in filters.keys THEN Select(by_percentage, affordable)
       ELSE by_percentage

\* list.sort(key = match_percentage, reverse = True): descending, and stable
\* (entries with equal keys keep the order they had).
\* One entry put into a sorted list, in front of the first smaller one:
RECURSIVE insort(_, _)
insort(sorted, m) ==
    IF sorted = <<>> THEN <<m>>
    ELSE IF QLt(Head(sorted).match_percentage, m.match_percentage)
    THEN <<m>> \o sorted
    ELSE <<Head(sorted)>> \o insort(Tail(sorted), m)

RECURSIVE sort_reverse(_)
sort_reverse(matches) ==
    IF matches = <<>> THEN <<>>
    ELSE insort(sort_reverse(SubSeq(matches, 1, Len(matches) - 1)),
                matches[Len(matches)])

\* a cut one entry late
Truncate_late(matches, max_results) ==
    SubSeq(matches, 1, IF max_results + 1 < Len(matches) THEN max_results + 1 ELSE Len(matches))

\* matches[:max_results] for max_results >= 0
Truncate(matches, max_results) ==
    SubSeq(matches, 1, IF max_results < Len(matches) THEN max_results ELSE Len(matches))

\* What find_matches returns or raises: [raised, matches].  A match carries
\* what the claims speak of: the id, the two percentages, the category, the
\* five factor scores (as reported, times 100) and the estimated net cost;
\* its name, reasoning texts and programs are left out.
Matches(matches) == [raised |-> "", matches |-> matches]
Fails(exception) == [raised |-> exception, matches |-> <<>>]

\* lines 131-170: the match of row i
match(student_profile, rows, i, factor_scores, below) ==
    LET component_scores == [f \in 1..5 |-> factor_scores[f][i]]
        score == QSum([f \in 1..5 |-> QMul(component_scores[f], feature_weights[f])])
    IN [university_id |-> rows[i].id,
        match_percentage |-> percent(score),
        confidence |-> percent(_calculate_confidence(student_profile, rows[i], component_scores)),
        category |-> _determine_category(student_profile, rows[i], Double(score, below)),
        factors |-> [f \in 1..5 |-> QMul(component_scores[f], QInt(100))],
        net_cost |-> _estimate_cost(rows[i], student_profile).score]

find_matches(data, student_profile, max_results, filters, below) ==
    LET rows == data.rows
        academic_scores == _calculate_academic_fit(student_profile, rows)
        interest_scores == _calculate_interest_alignment(student_profile, rows)
        location_scores == _calculate_location_preference(student_profile, rows)
        financial_scores == _calculate_financial_fit(student_profile, rows)
        cultural_scores == _calculate_cultural_fit(student_profile, rows)
        factor_scores == <<academic_scores.scores, interest_scores.scores,
                           location_scores.scores, financial_scores.scores,
                           cultural_scores.scores>>
        costs(i) == _estimate_cost(rows[i], student_profile)
        estimated == PerRow(Len(rows), costs)
        matches == [i \in 1..Len(rows) |-> match(student_profile, rows, i, factor_scores, below)]
        filtered == IF filters.keys # {} THEN _apply_filters(matches, filters) ELSE matches
    IN IF data = NoData THEN Fails("ValueError")
       ELSE IF academic_scores.raised # "" THEN Fails(academic_scores.raised)
       ELSE IF financial_scores.raised # "" THEN Fails(financial_scores.raised)
       ELSE IF estimated.raised # "" THEN Fails(estimated.raised)
       ELSE Matches(Truncate(sort_reverse(filtered), max_results))

\* ------------------------------------------------ get_similar_universities
RECURSIVE Dot(_, _, _)
Dot(a, b, words) ==
    IF words = {} THEN 0
    ELSE LET w == CHOOSE w \in words : TRUE
         IN a[w] * b[w] + Dot(a, b, words \ {w})

\* cosine_similarity of two rows.  No weight is negative, so the cosine is
\* not negative and its square, an exact fraction, orders and compares as the
\* cosine does: the model computes and reports the square.  A row of zeros has
\* similarity 0 to every row.
cosine_similarity(a, b) ==
    LET norms == Dot(a, a, DOMAIN a) * Dot(b, b, DOMAIN b)
    IN IF norms = 0 THEN QInt(0)
       ELSE Q(Dot(a, b, DOMAIN a) * Dot(a, b, DOMAIN a), norms)

\* ndarray.argsort(): the row numbers by ascending value; the order of rows
\* with equal values is not specified, so every such order is a result.
argsort(similarities) ==
    {order \in Permutations(1..Len(similarities)) :
        \A i, j \in 1..Len(similarities) :
            i < j => QLe(similarities[order[i]], similarities[order[j]])}

\* Python's seq[start:stop] for any integers start and stop
PyIndex(i, n) == IF i < 0 THEN (IF i + n < 0 THEN 0 ELSE i + n)
                 ELSE (IF i > n THEN n ELSE i)
Slice(seq, start, stop) ==
    SubSeq(seq, PyIndex(start, Len(seq)) + 1, PyIndex(stop, Len(seq)))
\* seq[::-1]
Reversed(seq) == [i \in 1..Len(seq) |-> seq[Len(seq) + 1 - i]]

Similar(similar) == [raised |-> "", similar |-> similar]
NoSimilar(exception) == [raised |-> exception, similar |-> <<>>]

\* the similarities of the target row to every row (line 554)
similarities_to(tfidf, target_idx) ==
    [i \in 1..Len(tfidf.rows) |-> cosine_similarity(tfidf.rows[target_idx], tfidf.rows[i])]

\* get_similar_universities, given the order argsort returned.  Reading the
\* attribute university_tfidf while it does not exist raises AttributeError;
\* a DataFrame made from an empty list has no "id" column.
get_similar_universities(data, tfidf, university_id, limit, order) ==
    LET rows == data.rows
        target_uni == {i \in 1..Len(rows) : rows[i].id = university_id}
        target_idx == CHOOSE i \in target_uni : \A j \in target_uni : i <= j
        similarities == similarities_to(tfidf, target_idx)
        similar_indices == Reversed(Slice(order, -limit - 1, -1))
        not_target(idx) == idx # target_idx
        kept == Select(similar_indices, not_target)
    IN IF data = NoData THEN Similar(<<>>)
       ELSE IF tfidf = Unset THEN NoSimilar("AttributeError")
       ELSE IF rows = <<>> THEN NoSimilar("KeyError")
       ELSE IF target_uni = {} THEN Similar(<<>>)
       ELSE Similar([k \in 1..Len(kept) |->
                        [university_id |-> rows[kept[k]].id,
                         similarity_score |-> similarities[kept[k]]]])

\* the orders argsort can return in that call (one, whatever it is, when the
\* call returns before line 557)
Orders(data, tfidf, university_id) ==
    LET rows == data.rows
        target_uni == {i \in 1..Len(rows) : rows[i].id = university_id}
        target_idx == CHOOSE i \in target_uni : \A j \in target_uni : i <= j
    IN IF data = NoData \/ tfidf = Unset \/ target_uni = {} THEN {<<>>}
       ELSE argsort(similarities_to(tfidf, target_idx))

\* ------------------------------------------------ the calls on the matcher
\* max_results of a request: validated to 1..100, default 20
MaxResults == {1, 2, 20}
\* limit of a similarity query: default 5
Limits == {0, 1, 2, 5}
\* ids asked about: those of the small catalogs, one of Scenario C's and one no
\* catalog has
QueryIds == {u.id : u \in Pool} \cup {"s1", "nowhere"}

FSafety == Filters({"categories"}, {"safety"}, QInt(0), QInt(0))
FNoCategory == Filters({"categories"}, {}, QInt(0), QInt(0))
FMin80 == Filters({"min_match_percentage"}, {}, QInt(80), QInt(0))
FMaxCost == Filters({"max_cost"}, {}, QInt(0), QInt(30000))
FAll == Filters({"categories", "min_match_percentage", "max_cost", "sort_by"},
                {"safety", "target"}, QInt(60), QInt(40000))
FUnknown == Filters({"sort_by"}, {}, QInt(0), QInt(0))
FilterDicts == {NoFilters, FSafety, FNoCategory, FMin80, FMaxCost, FAll, FUnknown}

\* The record of a matcher call: the method, its arguments, and what it
\* raised or returned.
NoMCall == [op |-> "-", student_profile |-> PBare, max_results |-> 0,
            filters |-> NoFilters, below |-> FALSE, university_id |-> "-", limit |-> -1,
            raised |-> "", matches |-> <<>>, similar |-> <<>>]

\* ================================================================ caching
\* utils/cache.py, ModelManager.cache_model_result / get_cached_result and
\* the matching handler of routes/matching.py.  The cache is a Redis server:
\* redis_store holds its keys; a command sent to it either is carried out or
\* raises (the server is unreachable, the connection drops).

\* no value under a key: what GET returns for it
NoValue == <<>>
\* json.dumps / pickle.dumps, and the matching loads: the serialized value
\* remembers its format, and loading it in the other format raises
dumps(format, value) == <<format, value>>
loadable(format, data) == data[1] = format
loads(format, data) == data[2]

\* SETEX key ttl value, carried out
setex(store, key, value) == [store EXCEPT ![key] = value]

\* the write of a cache routine that fails half way: a truncated value stays
_cache_matching_result_partial(store, cache_key, result, ok) ==
    [store |-> IF ok THEN setex(store, cache_key, result)
               ELSE setex(store, cache_key, <<"truncated">>),
     raised |-> "", log |-> IF ok THEN "-" ELSE "warning"]

\* _cache_matching_result (matching.py 320-326): the exception of a failed
\* SETEX is caught and logged
_cache_matching_result(store, cache_key, result, ok) ==
    [store |-> IF ok THEN setex(store, cache_key, result) ELSE store,
     raised |-> "", log |-> IF ok THEN "-" ELSE "warning"]

\* ModelManager.cache_model_result: nothing happens while self.redis is None
cache_model_result(store, has_redis, cache_key, result, ok) ==
    [store |-> IF has_redis /\ ok THEN setex(store, cache_key, dumps("pickle", result))
               ELSE store,
     raised |-> "", ret |-> None, log |-> IF has_redis /\ ~ok THEN "warning" ELSE "-"]

\* ModelManager.get_cached_result
get_cached_result(store, has_redis, cache_key, ok) ==
    LET cached_data == store[cache_key]
    IN [store |-> store, raised |-> "",
        ret |-> IF has_redis /\ ok /\ cached_data # NoValue /\ loadable("pickle", cached_data)
                THEN <<loads("pickle", cached_data)>> ELSE None,
        log |-> IF has_redis /\ (~ok \/ (cached_data # NoValue /\ ~loadable("pickle", cached_data)))
                THEN "warning" ELSE "-"]

\* CacheManager.set with serialize = "json": True when stored, False when not
CacheManager_set(store, key, value, ok) ==
    [store |-> IF ok THEN setex(store, key, dumps("json", value)) ELSE store,
     raised |-> "", ret |-> <<ok>>, log |-> IF ok THEN "-" ELSE "error"]

\* CacheManager.get with deserialize = "json"
CacheManager_get(store, key, ok) ==
    LET value == store[key]
    IN [store |-> store, raised |-> "",
        ret |-> IF ok /\ value # NoValue /\ loadable("json", value)
                THEN <<loads("json", value)>> ELSE None,
        log |-> IF ~ok \/ (value # NoValue /\ ~loadable("json", value)) THEN "error" ELSE "-"]

\* -------------------------------------------------- the matching handler
\* A validated UniversityMatchRequest
Request(student_id, student_profile, max_results, include_safety, include_target, include_reach, filters) ==
    [student_id |-> student_id, student_profile |-> student_profile,
     max_results |-> max_results, include_safety |-> include_safety,
     include_target |-> include_target, include_reach |-> include_reach,
     filters |-> filters]
RStrong == Request("a", PStrong, 20, TRUE, TRUE, TRUE, NoFilters)
RBare == Request("b", PBare, 20, TRUE, TRUE, TRUE, NoFilters)
RGpaOnly == Request("a", PGpaOnly, 1, TRUE, TRUE, FALSE, FMin80)
\* every include flag off
RNoCategory == Request("a", PStrong, 20, FALSE, FALSE, FALSE, NoFilters)
Requests == {RStrong, RBare, RGpaOnly, RNoCategory}
NoRequest == Request("-", PBare, 0, FALSE, FALSE, FALSE, NoFilters)

\* f"matches:{student_id}:{hash(str(request.dict()))}": the hash of the
\* request stands for the request
cache_key(request) == <<"matches", request.student_id, request>>
\* the key the other cache routines are called with
ModelKey == <<"model", "k1", NoRequest>>
Keys == {cache_key(r) : r \in Requests} \cup {ModelKey}

\* the catalog the handler initializes its matcher with: universities of the
\* model stand for the five fixed ones
mock_universities == <<U3, U1>>

\* the filters dict _perform_university_matching builds (249-263): the
\* categories of the include flags, updated with the request's own filters
request_filters(request) ==
    LET categories == (IF request.include_safety THEN {"safety"} ELSE {})
                      \cup (IF request.include_target THEN {"target"} ELSE {})
                      \cup (IF request.include_reach THEN {"reach"} ELSE {})
    IN Filters((IF categories # {} THEN {"categories"} ELSE {}) \cup request.filters.keys,
               IF "categories" \in request.filters.keys THEN request.filters.categories
               ELSE categories,
               request.filters.min_match_percentage, request.filters.max_cost)

\* _perform_university_matching: a fresh matcher, initialized, asked once
_perform_university_matching(request, below) ==
    find_matches(initialize(NoData, Unset, Unset, mock_universities).data,
                 request.student_profile, request.max_results, request_filters(request), below)

\* A response: the MatchingResponse (status 200) or the HTTPException the
\* handler raises (status 500 and what failed).
Response(status_code, detail, cached, matches) ==
    [status |-> status_code, detail |-> detail, cached |-> cached, matches |-> matches]
NoResponse == Response(0, "-", FALSE, <<>>)
\* response.json() and MatchingResponse.parse_raw
json(response) == dumps("json", response)
parse_raw(data) == loads("json", data)

\* What a handler is doing: the request it serves, how its cache read ended
\* ("hit", "miss", "raised"), the response it returned, the state of the
\* background task that stores the response ("pending", "stored", "failed")
\* and how many times that task called SETEX.
Handler(at, request, read, response, write, writes) ==
    [at |-> at, request |-> request, read |-> read, response |-> response,
     write |-> write, writes |-> writes]
Idle == Handler("idle", NoRequest, "-", NoResponse, "-", 0)

\* The record of a call of one of the other cache routines
NoCCall == [op |-> "-", ok |-> TRUE, has_redis |-> TRUE, ret |-> None, raised |-> "", log |-> "-"]

\* match_universities from the return of redis.get to its own return
\* (79-123): cached_result is what GET returned.  Nothing in it suspends.
\* The HTTPException of line 89 is raised inside the try and comes out of the
\* except clause as a 500 like any other exception.
\* the branches of the handler over what GET returned, what get_model
\* returned and what the matching returned
respond(cached_result, unchanged, got, found) ==
    IF cached_result # NoValue
    THEN [manager |-> unchanged, called |-> FALSE, task |-> FALSE,
          response |-> [parse_raw(cached_result) EXCEPT !.cached = TRUE]]
    ELSE IF got.ret = NoModel
    THEN [manager |-> got, called |-> TRUE, task |-> FALSE,
          response |-> Response(500, "HTTPException", FALSE, <<>>)]
    ELSE IF found.raised # ""
    THEN [manager |-> got, called |-> TRUE, task |-> FALSE,
          response |-> Response(500, found.raised, FALSE, <<>>)]
    ELSE [manager |-> got, called |-> TRUE, task |-> TRUE,
          response |-> Response(200, "", FALSE, found.matches)]
match_universities(request, cached_result, lm, md, utcnow, below) ==
    respond(cached_result, Outcome(lm, md, "-", "-", 0, {}),
            get_model(lm, md, "university_matcher", utcnow),
            _perform_university_matching(request, below))

\* ================================================================ startup
\* ModelManager.initialize and cleanup as the application's lifespan runs
\* them (main.py 51-53, 70).  The essential models are the three of
\* MODEL_CONFIGS; the dicts of this part are over their names.
EssentialNames == {"university_matcher", "essay_analyzer", "admission_predictor"}

\* _load_essential_models (46-62): the loads in order, each with the memory
\* psutil reports at its check.  load_model catches every exception and
\* returns a bool, which is dropped here: the except clause of line 60 is
\* never entered by a failed load.
_load_essential_models(lm, md, ENABLE_ESSAY_ANALYSIS, ENABLE_PREDICTIONS, mem, hub_ok, utcnow) ==
    LET matcher == load_model(lm, md, "university_matcher", CfMatcher, mem[1], hub_ok, utcnow)
        essay == IF ENABLE_ESSAY_ANALYSIS
                 THEN load_model(matcher.lm, matcher.md, "essay_analyzer", CfEssay,
                                 mem[2], hub_ok, utcnow)
                 ELSE matcher
        predictor == IF ENABLE_PREDICTIONS
                     THEN load_model(essay.lm, essay.md, "admission_predictor", CfPredictor,
                                     mem[3], hub_ok, utcnow)
                     ELSE essay
    IN [lm |-> predictor.lm, md |-> predictor.md, raised |-> ""]

\* ModelManager.initialize (31-44): get_redis connects lazily and does not
\* raise; os.makedirs raises OSError when the directory cannot be made
ModelManager_initialize(lm, md, ENABLE_ESSAY_ANALYSIS, ENABLE_PREDICTIONS, makedirs_ok, mem, hub_ok, utcnow) ==
    IF ~makedirs_ok THEN [lm |-> lm, md |-> md, raised |-> "OSError"]
    ELSE _load_essential_models(lm, md, ENABLE_ESSAY_ANALYSIS, ENABLE_PREDICTIONS,
                                mem, hub_ok, utcnow)

\* ModelManager.cleanup (302-313): unload_model on every loaded name
cleanup(lm, md) == unload_each(lm, md, {n \in DOMAIN lm : lm[n] # NoModel})

\* The initialize call of the running application: the settings and the
\* environment it ran with, and what it raised.
Boot(ENABLE_ESSAY_ANALYSIS, ENABLE_PREDICTIONS, makedirs_ok, mem, hub_ok, raised) ==
    [done |-> TRUE, ENABLE_ESSAY_ANALYSIS |-> ENABLE_ESSAY_ANALYSIS,
     ENABLE_PREDICTIONS |-> ENABLE_PREDICTIONS, makedirs_ok |-> makedirs_ok,
     mem |-> mem, hub_ok |-> hub_ok, raised |-> raised]
NoBoot == [Boot(FALSE, FALSE, TRUE, <<0, 0, 0>>, TRUE, "") EXCEPT !.done = FALSE]

\* ---------------------------------------------------------------- Init

Init ==
    /\ loaded_models = [n \in Names |-> NoModel]
    /\ model_metadata = [n \in Names |-> NoMeta]
    /\ now = 0
    /\ pc = [t \in Tasks |-> "idle"]
    /\ req = [t \in Tasks |-> NoReq]
    /\ last = NoCall
    /\ built = [n \in Names |-> 0]
    /\ used = [n \in Names |-> NotUsed]
    /\ status = NoStatus
    /\ university_data = NoData
    /\ university_tfidf = Unset
    /\ university_numerical = Unset
    /\ matcher_weights = feature_weights
    /\ mlast = NoMCall
    /\ redis_store = [k \in Keys |-> NoValue]
    /\ handler = [t \in Tasks |-> Idle]
    /\ clast = NoCCall
    /\ boot = NoBoot

\* ---------------------------------------------------------------- actions

\* A caller creates and schedules the coroutine of a method call on a name; its
\* body has not run yet.
Call(t, op, n) ==
    /\ pc[t] = "idle"
    /\ pc' = [pc EXCEPT ![t] = "pending"]
    /\ req' = [req EXCEPT ![t] = [op |-> op, name |-> n, joined |-> FALSE]]
    /\ last' = NoCall
    /\ status' = NoStatus
    /\ UNCHANGED <<loaded_models, model_metadata, now, built, used, idxvars, mlast, cachevars, boot>>

\* The state after the body of task t's call has run with outcome o.
Body(t, outcome, nextpc, call) ==
  LET o == outcome IN
    /\ loaded_models' = o.lm
    /\ model_metadata' = o.md
    /\ pc' = [pc EXCEPT ![t] = nextpc]
    /\ last' = [call EXCEPT !.ret = o.ret, !.log = o.log, !.built = o.built,
                            !.joined = req[t].joined]
    /\ built' = [n \in Names |->
                    IF o.lm[n] = NoModel THEN 0
                    ELSE (IF n \in o.dropped \/ loaded_models[n] = NoModel THEN 0 ELSE built[n])
                         + (IF n = call.name THEN o.built ELSE 0)]
    /\ used' = [n \in Names |->
                    IF o.lm[n] = NoModel \/ n \in o.dropped \/ loaded_models[n] = NoModel
                    THEN NotUsed
                    ELSE IF call.op = "get" /\ n = call.name
                    THEN [count |-> used[n].count + 1, at |-> now]
                    ELSE used[n]]
    /\ req' = [u \in Tasks |->
                    IF u = t THEN (IF nextpc = "using" THEN req[t] ELSE NoReq)
                    ELSE IF pc[u] = "pending" /\ req[u].op = "load"
                    THEN [req[u] EXCEPT !.joined =
                             IF o.lm[req[u].name] = NoModel THEN FALSE
                             ELSE IF call.op = "load" /\ call.name = req[u].name /\ o.built > 0
                             THEN TRUE
                             ELSE @]
                    ELSE req[u]]
    /\ UNCHANGED <<now, idxvars, mlast>>

\* ... of a call that returns no status dict
Finish(t, outcome, nextpc, call) ==
    /\ Body(t, outcome, nextpc, call)
    /\ status' = NoStatus
    /\ UNCHANGED <<cachevars, boot>>

\* The inputs a load reads from its environment: psutil's available memory,
\* read only by a call that reaches the admission check, and whether the model hub
\* delivers, which only the transformer loader asks.
MemRead(checks) == IF checks THEN MemLevels ELSE {MAX_MODEL_MEMORY_MB + 1}
HubRead(config) == IF config.type = "transformer" THEN BOOLEAN ELSE {TRUE}

CallLoad(t) == \E n \in Names : Call(t, "load", n)

LoadModel(t) ==
    /\ pc[t] = "pending" /\ req[t].op = "load"
    /\ \E config \in Configs :
       \E available_mb \in MemRead(req[t].name \notin Loaded(loaded_models)),
          hub_ok \in HubRead(config) :
          Finish(t,
                 load_model(loaded_models, model_metadata, req[t].name, config,
                            available_mb, hub_ok, now),
                 "idle",
                 [NoCall EXCEPT !.op = "load", !.name = req[t].name,
                                !.newcfg = /\ model_metadata[req[t].name] # NoMeta
                                           /\ model_metadata[req[t].name].config # config,
                                !.mem = IF loaded_models[req[t].name] = NoModel
                                        THEN available_mb ELSE -1])

CallGet(t) == \E n \in Names : Call(t, "get", n)

\* get_model, called by a handler that then works with the model it was given
GetModel(t) ==
    /\ pc[t] = "pending" /\ req[t].op = "get"
    /\ model_metadata[req[t].name] # NoMeta => model_metadata[req[t].name].usage_count < MaxUse
    /\ LET o == get_model(loaded_models, model_metadata, req[t].name, now)
       IN Finish(t, o, IF o.ret = NoModel THEN "idle" ELSE "using",
                 [NoCall EXCEPT !.op = "get", !.name = req[t].name])

\* the handler is done with the model
Release(t) ==
    /\ pc[t] = "using"
    /\ pc' = [pc EXCEPT ![t] = "idle"]
    /\ req' = [req EXCEPT ![t] = NoReq]
    /\ last' = NoCall
    /\ status' = NoStatus
    /\ UNCHANGED <<loaded_models, model_metadata, now, built, used, idxvars, mlast, cachevars, boot>>

\* unload_model, cleanup_unused_models and reload_model: the call and its body
\* in one step (nothing depends on when their coroutines were created).
Direct(t) ==
    /\ pc[t] = "idle"
    /\ req[t] = NoReq

UnloadModel(t) ==
    \E n \in Names :
       /\ Direct(t)
       /\ Finish(t, unload_model(loaded_models, model_metadata, n), "idle",
                 [NoCall EXCEPT !.op = "unload", !.name = n])

CleanupUnusedModels(t) ==
    \E max_idle_hours \in IdleHours :
       /\ Direct(t)
       /\ Finish(t, cleanup_unused_models(loaded_models, model_metadata, max_idle_hours, now),
                 "idle",
                 [NoCall EXCEPT !.op = "cleanup", !.hours = max_idle_hours])

ReloadModel(t) ==
    \E n \in Names :
    \E available_mb \in MemRead(model_metadata[n] # NoMeta),
       hub_ok \in HubRead(model_metadata[n].config) :
       /\ Direct(t)
       /\ Finish(t,
                 reload_model(loaded_models, model_metadata, n, available_mb, hub_ok, now),
                 "idle",
                 [NoCall EXCEPT !.op = "reload", !.name = n,
                                !.mem = IF model_metadata[n] # NoMeta THEN available_mb ELSE -1])

GetModelStatus(t) ==
    /\ Direct(t)
    /\ LET s == get_model_status(loaded_models, model_metadata)
       IN /\ Body(t, s.out, "idle", [NoCall EXCEPT !.op = "status"])
          /\ status' = s.status
          /\ UNCHANGED <<cachevars, boot>>

\* datetime.utcnow() advances
Tick ==
    /\ now < MaxTime
    /\ now' = now + 1
    /\ last' = NoCall
    /\ status' = NoStatus
    /\ UNCHANGED <<loaded_models, model_metadata, pc, req, built, used, idxvars, mlast, cachevars, boot>>

Next ==
    \/ \E t \in Tasks : CallLoad(t)
    \/ \E t \in Tasks : LoadModel(t)
    \/ \E t \in Tasks : CallGet(t)
    \/ \E t \in Tasks : GetModel(t)
    \/ \E t \in Tasks : Release(t)
    \/ \E t \in Tasks : UnloadModel(t)
    \/ \E t \in Tasks : CleanupUnusedModels(t)
    \/ \E t \in Tasks : ReloadModel(t)
    \/ \E t \in Tasks : GetModelStatus(t)
    \/ Tick

Spec == Init /\ [][Next]_vars

\* ------------------------------------------------------- matcher actions
\* The bodies of initialize, find_matches and get_similar_universities await
\* only coroutines of the matcher that never suspend: each is one step.  The
\* step leaves the call and its result in mlast, and the caller takes the
\* result (Return) before the next call is made.
Initialize ==
    /\ mlast = NoMCall
    /\ university_data.build + 1 \in Builds
    /\ \E catalog \in Catalogs :
          LET o == initialize(university_data, university_tfidf, university_numerical, catalog)
          IN /\ university_data' = o.data
             /\ university_tfidf' = o.tfidf
             /\ university_numerical' = o.numerical
             /\ UNCHANGED matcher_weights
             /\ mlast' = [NoMCall EXCEPT !.op = "initialize"]
    /\ UNCHANGED <<mgrvars, cachevars, boot>>

\* find_matches dropping the numeric vectors it has read
FindMatches_consuming ==
    /\ mlast = NoMCall
    /\ \E student_profile \in Profiles, max_results \in MaxResults, filters \in FilterDicts,
          below \in BOOLEAN :
          LET o == find_matches(university_data, student_profile, max_results, filters, below)
          IN mlast' = [NoMCall EXCEPT !.op = "find_matches",
                                      !.student_profile = student_profile,
                                      !.max_results = max_results, !.filters = filters,
                                      !.below = below,
                                      !.raised = o.raised, !.matches = o.matches]
    /\ university_numerical' = Unset
    /\ UNCHANGED <<mgrvars, university_data, university_tfidf, matcher_weights, cachevars, boot>>

FindMatches ==
    /\ mlast = NoMCall
    /\ \E student_profile \in Profiles, max_results \in MaxResults, filters \in FilterDicts,
          below \in BOOLEAN :
          LET o == find_matches(university_data, student_profile, max_results, filters, below)
          IN mlast' = [NoMCall EXCEPT !.op = "find_matches",
                                      !.student_profile = student_profile,
                                      !.max_results = max_results, !.filters = filters,
                                      !.below = below,
                                      !.raised = o.raised, !.matches = o.matches]
    /\ UNCHANGED <<mgrvars, idxvars, cachevars, boot>>

GetSimilarUniversities ==
    /\ mlast = NoMCall
    /\ \E university_id \in QueryIds, limit \in Limits :
       \E order \in Orders(university_data, university_tfidf, university_id) :
          LET o == get_similar_universities(university_data, university_tfidf,
                                            university_id, limit, order)
          IN mlast' = [NoMCall EXCEPT !.op = "get_similar_universities",
                                      !.university_id = university_id, !.limit = limit,
                                      !.raised = o.raised, !.similar = o.similar]
    /\ UNCHANGED <<mgrvars, idxvars, cachevars, boot>>

Return ==
    /\ mlast # NoMCall
    /\ mlast' = NoMCall
    /\ UNCHANGED <<mgrvars, idxvars, cachevars, boot>>

NextMatcher ==
    \/ Initialize
    \/ FindMatches
    \/ GetSimilarUniversities
    \/ Return

SpecMatcher == Init /\ [][NextMatcher]_vars

\* ------------------------------------------------------ handler actions
\* The specification of the matching handler and the cache.  The manager has
\* been started or not: the matcher model is loaded or no model is.
InitRequest ==
    /\ \E o \in {Outcome([n \in Names |-> NoModel], [n \in Names |-> NoMeta], "-", "-", 0, {}),
                 load_model([n \in Names |-> NoModel], [n \in Names |-> NoMeta],
                            "university_matcher", CfMatcher, MAX_MODEL_MEMORY_MB + 1, TRUE, 0)} :
          /\ loaded_models = o.lm
          /\ model_metadata = o.md
          /\ built = [n \in Names |-> IF o.lm[n] = NoModel THEN 0 ELSE 1]
    /\ now = 0
    /\ pc = [t \in Tasks |-> "idle"]
    /\ req = [t \in Tasks |-> NoReq]
    /\ last = NoCall
    /\ used = [n \in Names |-> NotUsed]
    /\ status = NoStatus
    /\ university_data = NoData
    /\ university_tfidf = Unset
    /\ university_numerical = Unset
    /\ matcher_weights = feature_weights
    /\ mlast = NoMCall
    /\ redis_store = [k \in Keys |-> NoValue]
    /\ handler = [t \in Tasks |-> Idle]
    /\ clast = NoCCall
    /\ boot = NoBoot

\* a step in which no manager method runs
NoManagerCall ==
    /\ last' = NoCall
    /\ status' = NoStatus
    /\ UNCHANGED <<loaded_models, model_metadata, now, pc, req, built, used, idxvars, mlast, boot>>

\* a request arrives: the handler runs up to its await of redis.get
Receive(t) ==
    /\ handler[t] = Idle
    /\ clast = NoCCall
    /\ \E request \in Requests :
          handler' = [handler EXCEPT ![t] = Handler("reading", request, "-", NoResponse, "-", 0)]
    /\ UNCHANGED <<redis_store, clast>>
    /\ NoManagerCall

\* redis.get returns or raises, and the handler runs to its return.  The
\* exception of redis.get is raised inside the try of line 68: it leaves the
\* handler as HTTPException 500.
\* the handler of task t takes the outcome o of its body, or the exception
\* of redis.get when the read failed (ok = FALSE)
Answer(t, request, ok, o) ==
    /\ IF ~ok
       THEN /\ handler' = [handler EXCEPT ![t] =
                  Handler("done", request, "raised",
                          Response(500, "ConnectionError", FALSE, <<>>), "-", 0)]
            /\ NoManagerCall
       ELSE /\ o.called /\ model_metadata["university_matcher"] # NoMeta
                  => model_metadata["university_matcher"].usage_count < MaxUse
            /\ handler' = [handler EXCEPT ![t] =
                  Handler(IF o.task THEN "responded" ELSE "done", request,
                          IF o.called THEN "miss" ELSE "hit", o.response,
                          IF o.task THEN "pending" ELSE "-", 0)]
            /\ IF o.called
               THEN /\ Body(t, o.manager, "idle",
                            [NoCall EXCEPT !.op = "get", !.name = "university_matcher"])
                    /\ status' = NoStatus
                    /\ UNCHANGED boot
               ELSE NoManagerCall
    /\ UNCHANGED <<redis_store, clast>>
MatchUniversities(t) ==
    /\ handler[t].at = "reading"
    /\ clast = NoCCall
    /\ \E ok, below \in BOOLEAN :
          Answer(t, handler[t].request, ok,
                 match_universities(handler[t].request,
                                    redis_store[cache_key(handler[t].request)],
                                    loaded_models, model_metadata, now, below))

\* the background task of the response: _cache_matching_result
CacheMatchingResult(t) ==
    /\ handler[t].write = "pending"
    /\ clast = NoCCall
    /\ \E ok \in BOOLEAN :
          LET o == _cache_matching_result(redis_store, cache_key(handler[t].request),
                                          json(handler[t].response), ok)
          IN /\ redis_store' = o.store
             /\ handler' = [handler EXCEPT ![t] =
                   [@ EXCEPT !.at = "done", !.writes = @ + 1,
                             !.write = IF ok THEN "stored" ELSE "failed"]]
    /\ UNCHANGED clast
    /\ NoManagerCall

\* the client has its response and the background task is over
Complete(t) ==
    /\ handler[t].at = "done"
    /\ clast = NoCCall
    /\ handler' = [handler EXCEPT ![t] = Idle]
    /\ UNCHANGED <<redis_store, clast>>
    /\ NoManagerCall

\* the ttl of a key runs out
Expire ==
    /\ clast = NoCCall
    /\ \E k \in Keys : /\ redis_store[k] # NoValue
                       /\ redis_store' = [redis_store EXCEPT ![k] = NoValue]
    /\ UNCHANGED <<handler, clast>>
    /\ NoManagerCall

\* the other cache routines, called on one key with one value
CacheCall(op, o, has_redis, ok) ==
    /\ redis_store' = o.store
    /\ clast' = [op |-> op, ok |-> ok, has_redis |-> has_redis, ret |-> o.ret,
                 raised |-> o.raised, log |-> o.log]
    /\ UNCHANGED handler
    /\ NoManagerCall

CacheModelResult ==
    /\ clast = NoCCall
    /\ \E has_redis, ok \in BOOLEAN :
       CacheCall("cache_model_result",
                 cache_model_result(redis_store, has_redis, ModelKey, "v1", ok), has_redis, ok)

GetCachedResult ==
    /\ clast = NoCCall
    /\ \E has_redis, ok \in BOOLEAN :
       CacheCall("get_cached_result",
                 get_cached_result(redis_store, has_redis, ModelKey, ok), has_redis, ok)

CacheManagerSet ==
    /\ clast = NoCCall
    /\ \E ok \in BOOLEAN :
       CacheCall("CacheManager.set", CacheManager_set(redis_store, ModelKey, "v1", ok), TRUE, ok)

CacheManagerGet ==
    /\ clast = NoCCall
    /\ \E ok \in BOOLEAN :
       CacheCall("CacheManager.get", CacheManager_get(redis_store, ModelKey, ok), TRUE, ok)

\* the caller of a cache routine takes its result
CacheReturn ==
    /\ clast # NoCCall
    /\ clast' = NoCCall
    /\ UNCHANGED <<redis_store, handler>>
    /\ NoManagerCall

NextRequest ==
    \/ \E t \in Tasks : Receive(t)
    \/ \E t \in Tasks : MatchUniversities(t)
    \/ \E t \in Tasks : CacheMatchingResult(t)
    \/ \E t \in Tasks : Complete(t)
    \/ Expire
    \/ CacheModelResult
    \/ GetCachedResult
    \/ CacheManagerSet
    \/ CacheManagerGet
    \/ CacheReturn

SpecRequest == InitRequest /\ [][NextRequest]_vars

\* ------------------------------------------------------ startup actions
InitStartup ==
    /\ loaded_models = [n \in EssentialNames |-> NoModel]
    /\ model_metadata = [n \in EssentialNames |-> NoMeta]
    /\ now = 0
    /\ pc = [t \in Tasks |-> "idle"]
    /\ req = [t \in Tasks |-> NoReq]
    /\ last = NoCall
    /\ built = [n \in Names |-> 0]
    /\ used = [n \in Names |-> NotUsed]
    /\ status = NoStatus
    /\ university_data = NoData
    /\ university_tfidf = Unset
    /\ university_numerical = Unset
    /\ matcher_weights = feature_weights
    /\ mlast = NoMCall
    /\ redis_store = [k \in Keys |-> NoValue]
    /\ handler = [t \in Tasks |-> Idle]
    /\ clast = NoCCall
    /\ boot = NoBoot

\* the lifespan starts the application: ModelManager() and initialize()
Startup ==
    /\ ~boot.done
    /\ \E ENABLE_ESSAY_ANALYSIS, ENABLE_PREDICTIONS, makedirs_ok, hub_ok \in BOOLEAN,
          mem \in [1..3 -> MemLevels] :
          LET o == ModelManager_initialize(loaded_models, model_metadata,
                                           ENABLE_ESSAY_ANALYSIS, ENABLE_PREDICTIONS,
                                           makedirs_ok, mem, hub_ok, now)
          IN /\ loaded_models' = o.lm
             /\ model_metadata' = o.md
             /\ boot' = Boot(ENABLE_ESSAY_ANALYSIS, ENABLE_PREDICTIONS, makedirs_ok,
                             mem, hub_ok, o.raised)
    /\ UNCHANGED <<now, pc, req, last, built, used, status, idxvars, mlast, cachevars>>

\* the lifespan ends (or initialize raised and the process exits): cleanup,
\* and the manager is gone
Shutdown ==
    /\ boot.done
    /\ LET o == cleanup(loaded_models, model_metadata)
       IN loaded_models' = o.lm /\ model_metadata' = o.md
    /\ boot' = NoBoot
    /\ UNCHANGED <<now, pc, req, last, built, used, status, idxvars, mlast, cachevars>>

NextStartup ==
    \/ Startup
    \/ Shutdown

SpecStartup == InitStartup /\ [][NextStartup]_vars



\* ================================================================ claims

\* the manager's two dicts are as they were
SameDicts == loaded_models' = loaded_models /\ model_metadata' = model_metadata

\* every name but n has its model and its metadata as they were
OthersSame(n) ==
    \A m \in Names \ {n} :
        loaded_models'[m] = loaded_models[m] /\ model_metadata'[m] = model_metadata[m]

\* some task holds a model it got under name n
InUse(n) == \E u \in Tasks : pc[u] = "using" /\ req[u].name = n

\* C1: overlapping load_model calls for one name that is not loaded yet collapse
\* into one construction: no name ever has more than one model constructed
\* under it while it stays loaded, a load that returns True leaves the name
\* loaded with exactly one construction, and a call that was pending while
\* another call constructed the model returns True, constructs nothing and
\* leaves the dicts as they are.
C1_LoadsCollapse ==
    [][ /\ \A m \in Names : built'[m] <= 1
        /\ last'.op = "load" =>
              /\ last'.ret = "True" =>
                    loaded_models'[last'.name] # NoModel /\ built'[last'.name] = 1
              /\ last'.joined =>
                    last'.ret = "True" /\ last'.built = 0 /\ SameDicts ]_vars

\* a call that overlapped the constructing call has returned True, one model built
C1_Witness ==
    /\ last.op = "load" /\ last.joined /\ last.ret = "True" /\ last.built = 0
    /\ built[last.name] = 1
    /\ loaded_models[last.name] # NoModel

\* C2: a sweep (cleanup_unused_models) unloads no model whose last_used is
\* within max_idle_hours of the current time and no model that a caller got
\* from get_model and is still using.
C2_SweepSparesRecentAndInUse ==
    [][ last'.op = "cleanup" =>
           \A n \in Loaded(loaded_models) \ Loaded(loaded_models') :
               /\ now - model_metadata[n].last_used > last'.hours
               /\ ~InUse(n) ]_vars

\* C3: no usage update is lost: usage_count is the number of get_model calls
\* that returned the model since it was constructed, and last_used is the time
\* of the latest of them (of the construction when there was none).
C3_NoLostUsage ==
    \A n \in Names :
        model_metadata[n] # NoMeta =>
            /\ model_metadata[n].usage_count = used[n].count
            /\ model_metadata[n].last_used =
                  IF used[n].count = 0 THEN model_metadata[n].loaded_at ELSE used[n].at

\* both tasks were handed the same model, the second after the clock moved
C3_Witness ==
    \E n \in Names :
        /\ \A t \in Tasks : pc[t] = "using" /\ req[t].name = n
        /\ used[n].count = 2
        /\ model_metadata[n].last_used > model_metadata[n].loaded_at

\* C4: a model is constructed only by a call whose admission check read
\* available memory strictly above MAX_MODEL_MEMORY_MB; a load whose check read
\* the budget or less returns False with the insufficient-memory warning,
\* constructs nothing and leaves the name unloaded.
C4_AdmissionStrict ==
    /\ last.built > 0 => last.mem > MAX_MODEL_MEMORY_MB
    /\ (last.op = "load" /\ last.mem # -1 /\ last.mem <= MAX_MODEL_MEMORY_MB) =>
          /\ last.ret = "False"
          /\ last.log = "Insufficient memory to load model"
          /\ last.built = 0
          /\ loaded_models[last.name] = NoModel
          /\ model_metadata[last.name] = NoMeta

\* a load was refused with available memory exactly at the budget
C4_Witness ==
    /\ last.op = "load" /\ last.mem = MAX_MODEL_MEMORY_MB
    /\ last.ret = "False" /\ last.built = 0

\* C5: a load_model call that returns False (insufficient memory, unknown
\* type, construction failure) leaves both dicts as they were, and the name is
\* not loaded.
C5_FailedLoadChangesNothing ==
    [][ (last'.op = "load" /\ last'.ret = "False") =>
           /\ SameDicts
           /\ last'.built = 0
           /\ loaded_models'[last'.name] = NoModel
           /\ model_metadata'[last'.name] = NoMeta ]_vars

\* a construction failed while another model was loaded
C5_Witness ==
    /\ last.op = "load" /\ last.ret = "False" /\ last.log = "Failed to load"
    /\ Loaded(loaded_models) # {}

\* C6 as stated: load_model for a name that is already loaded reports a
\* failure, constructs nothing and leaves the dicts as they were.
C6_AlreadyLoadedFails ==
    [][ (last'.op = "load" /\ loaded_models[last'.name] # NoModel) =>
           /\ last'.ret = "False"
           /\ last'.built = 0
           /\ SameDicts ]_vars

\* C6 as the code has it: load_model for a name that is already loaded returns
\* True, constructs nothing and leaves the dicts (the model, its stored config,
\* its usage metadata) as they were, whatever config it was called with.
C6_AlreadyLoadedIsNoOp ==
    [][ (last'.op = "load" /\ loaded_models[last'.name] # NoModel) =>
           /\ last'.ret = "True"
           /\ last'.log = "already loaded"
           /\ last'.built = 0
           /\ SameDicts ]_vars

\* a load with a config other than the stored one found the name loaded
C6_Witness ==
    /\ last.op = "load" /\ last.newcfg /\ last.log = "already loaded"
    /\ loaded_models[last.name] # NoModel

\* C7: get_model on a loaded name returns the model, adds exactly 1 to its
\* usage_count, sets its last_used to the current time and changes nothing
\* else; on a name that is not loaded it returns None and changes nothing.
C7_GetModel ==
    [][ last'.op = "get" =>
           LET n == last'.name IN
           IF loaded_models[n] # NoModel
           THEN /\ last'.ret = loaded_models[n]
                /\ loaded_models' = loaded_models
                /\ model_metadata'[n] =
                      [config |-> model_metadata[n].config,
                       loaded_at |-> model_metadata[n].loaded_at,
                       last_used |-> now,
                       usage_count |-> model_metadata[n].usage_count + 1]
                /\ OthersSame(n)
           ELSE /\ last'.ret = NoModel
                /\ SameDicts ]_vars

\* a model loaded earlier was returned while another model was loaded
C7_Witness ==
    /\ last.op = "get" /\ last.ret # NoModel
    /\ model_metadata[last.name].last_used > model_metadata[last.name].loaded_at
    /\ Loaded(loaded_models) = Names

\* C8: a sweep leaves no model that was idle for more than max_idle_hours, and
\* leaves every other model loaded with its metadata as it was.
C8_SweepExact ==
    [][ last'.op = "cleanup" =>
           \A n \in Names :
               IF /\ model_metadata[n] # NoMeta
                  /\ now - model_metadata[n].last_used > last'.hours
               THEN loaded_models'[n] = NoModel /\ model_metadata'[n] = NoMeta
               ELSE /\ loaded_models'[n] = loaded_models[n]
                    /\ model_metadata'[n] = model_metadata[n] ]_vars

\* a sweep unloaded a model and kept one that was idle for exactly max_idle_hours
C8_Witness ==
    /\ last.op = "cleanup" /\ last.log = "Cleaned up unused model"
    /\ \E n \in Loaded(loaded_models) : now - model_metadata[n].last_used = last.hours

\* C9: unload_model on a loaded name returns True and deletes the name from
\* both dicts, on a name that is not loaded it returns False and changes
\* nothing, and either way every other name is as it was; a later load of the
\* name constructs a model with usage_count 0.
C9_UnloadModel ==
    [][ /\ last'.op = "unload" =>
              LET n == last'.name IN
              /\ IF loaded_models[n] # NoModel
                 THEN /\ last'.ret = "True"
                      /\ loaded_models'[n] = NoModel
                      /\ model_metadata'[n] = NoMeta
                 ELSE /\ last'.ret = "False"
                      /\ SameDicts
              /\ OthersSame(n)
        /\ (last'.op = "load" /\ loaded_models[last'.name] = NoModel /\ last'.ret = "True") =>
              /\ model_metadata[last'.name] = NoMeta
              /\ last'.built = 1
              /\ model_metadata'[last'.name].usage_count = 0
              /\ model_metadata'[last'.name].loaded_at = now ]_vars

\* a used model was unloaded while another stayed loaded
C9_Witness ==
    /\ last.op = "unload" /\ last.ret = "True"
    /\ loaded_models[last.name] = NoModel /\ model_metadata[last.name] = NoMeta
    /\ Loaded(loaded_models) # {}

\* C10: reload_model on a name without metadata returns False and changes
\* nothing; on a loaded name, when it returns True, the name is loaded with a
\* newly constructed model under exactly the config stored before the call,
\* loaded_at and last_used the current time and usage_count 0; every other
\* name is as it was.
C10_ReloadModel ==
    [][ last'.op = "reload" =>
           LET n == last'.name IN
           IF model_metadata[n] = NoMeta
           THEN last'.ret = "False" /\ SameDicts
           ELSE /\ last'.ret = "True" =>
                      /\ last'.built = 1
                      /\ loaded_models'[n] = model_metadata[n].config.type
                      /\ model_metadata'[n] =
                            [config |-> model_metadata[n].config, loaded_at |-> now,
                             last_used |-> now, usage_count |-> 0]
                /\ OthersSame(n) ]_vars

\* a transformer model loaded at time 0 was reloaded later
C10_Witness ==
    /\ last.op = "reload" /\ last.ret = "True"
    /\ model_metadata[last.name].config = CfEssay
    /\ model_metadata[last.name].loaded_at > 0
    /\ model_metadata[last.name].usage_count = 0

\* C11: in every reachable state the names that have metadata are the loaded
\* names; the dict a get_model_status call returns has an entry for exactly
\* the names get_model succeeds on, carrying the type, loaded_at, last_used
\* and usage_count that name has in the state the call leaves; the call
\* writes neither dict.
C11_StatusIsLoaded ==
    /\ HasMeta(model_metadata) = Loaded(loaded_models)
    /\ last.op = "status" =>
          \A n \in Names :
             IF get_model(loaded_models, model_metadata, n, now).ret = NoModel
             THEN status[n] = NoEntry
             ELSE /\ status[n] # NoEntry
                  /\ status[n].type = model_metadata[n].config.type
                  /\ status[n].loaded_at = isoformat(model_metadata[n].loaded_at)
                  /\ status[n].last_used = isoformat(model_metadata[n].last_used)
                  /\ status[n].usage_count = model_metadata[n].usage_count

\* a status call answered while one model is loaded and has been used at a later
\* hour than it was loaded, the other name not loaded
C11_Witness ==
    /\ last.op = "status"
    /\ \E n \in Names : /\ status[n] # NoEntry
                        /\ status[n].usage_count > 0
                        /\ status[n].last_used # status[n].loaded_at
    /\ \E n \in Names : status[n] = NoEntry

\* ------------------------------------------------------- matcher claims
\* the rows of the index, the place of a candidate in it, and the match of
\* every candidate for a profile (no filter, no cut)
Rows == university_data.rows
Pos(id) == CHOOSE i \in 1..Len(Rows) : Rows[i].id = id
Scored(student_profile) ==
    LET all == find_matches(university_data, student_profile, Len(Rows), NoFilters,
                            mlast.below).matches
    IN {all[i] : i \in 1..Len(all)}
Returned_matches == {mlast.matches[i] : i \in 1..Len(mlast.matches)}
FoundMatches == mlast.op = "find_matches" /\ mlast.raised = ""
\* a comes before b in the ranking
Before(a, b) ==
    \/ QLt(b.match_percentage, a.match_percentage)
    \/ /\ a.match_percentage = b.match_percentage
       /\ Pos(a.university_id) < Pos(b.university_id)
\* the three filters of a request, AND-combined
Passes(m, filters) ==
    /\ "categories" \in filters.keys => m.category \in filters.categories
    /\ "min_match_percentage" \in filters.keys
          => QLe(filters.min_match_percentage, m.match_percentage)
    /\ "max_cost" \in filters.keys => QLe(m.net_cost, filters.max_cost)
Passing == {m \in Scored(mlast.student_profile) : Passes(m, mlast.filters)}

\* C12: a find_matches call that returns, returns at most max_results
\* matches, each before the next in the ranking (higher match_percentage
\* first, equal percentages in catalog order), and they are the first
\* max_results of that ranking of the candidates that pass the filters.
C12_RankedAndCut ==
    FoundMatches =>
       /\ Len(mlast.matches) <= mlast.max_results
       /\ \A i, j \in 1..Len(mlast.matches) :
             i < j => Before(mlast.matches[i], mlast.matches[j])
       /\ Returned_matches \subseteq Passing
       /\ Len(mlast.matches) = IF Cardinality(Passing) < mlast.max_results
                               THEN Cardinality(Passing) ELSE mlast.max_results
       /\ \A p \in Passing \ Returned_matches : \A m \in Returned_matches : Before(m, p)

\* a call cut to max_results whose two first matches tie and whose first
\* dropped candidate ties with them
C12_Witness ==
    /\ FoundMatches
    /\ mlast.max_results = 2
    /\ Len(mlast.matches) = 2
    /\ mlast.matches[1].match_percentage = mlast.matches[2].match_percentage
    /\ \E p \in Passing \ Returned_matches :
          p.match_percentage = mlast.matches[2].match_percentage

\* C13: find_matches raises "not initialized" exactly when no index has been
\* built; on an index built from zero candidates find_matches returns the
\* empty list and get_similar_universities returns the empty list, neither
\* raising.
C13_ZeroCandidatesQueryable ==
    /\ mlast.op = "find_matches" =>
          (mlast.raised = "ValueError" <=> university_data = NoData)
    /\ university_data # NoData /\ Rows = <<>> =>
          /\ mlast.op = "find_matches" => mlast.raised = "" /\ mlast.matches = <<>>
          /\ mlast.op = "get_similar_universities" =>
                mlast.raised = "" /\ mlast.similar = <<>>

\* C14: a returned match passes every filter of the request; a candidate that
\* passes them all is missing only when max_results matches were returned;
\* a key that is no filter changes nothing; filters that leave no candidate
\* give the empty list, and no filter makes the call raise; Scenario C.
C14_Filters ==
    /\ FoundMatches =>
          /\ Returned_matches \subseteq Passing
          /\ Passing \subseteq Returned_matches \/ Len(mlast.matches) = mlast.max_results
          /\ Passing = {} => mlast.matches = <<>>
          /\ mlast.matches =
                find_matches(university_data, mlast.student_profile, mlast.max_results,
                             [mlast.filters EXCEPT !.keys = @ \ {"sort_by"}],
                             mlast.below).matches
          /\ (/\ Rows = ScenarioC /\ mlast.student_profile = PStrong
              /\ mlast.filters = FSafety /\ mlast.max_results = 20)
                => [i \in 1..Len(mlast.matches) |-> mlast.matches[i].university_id]
                      = <<"s2", "s1">>
    /\ mlast.op = "find_matches" =>
          mlast.raised = find_matches(university_data, mlast.student_profile,
                                      mlast.max_results, NoFilters, mlast.below).raised

\* Scenario C: the safety-only request over 2 safety, 3 target and 1 reach
C14_Witness ==
    /\ FoundMatches
    /\ Rows = ScenarioC /\ mlast.student_profile = PStrong /\ mlast.filters = FSafety
    /\ mlast.max_results = 20
    /\ Len(mlast.matches) = 2
    /\ Cardinality({m \in Scored(PStrong) : m.category = "target"}) = 3
    /\ Cardinality({m \in Scored(PStrong) : m.category = "reach"}) = 1

InRange(q, low, high) == QLe(QInt(low), q) /\ QLe(q, QInt(high))

\* C15: in every match returned, each of the five factor scores is in [0, 1]
\* (reported times 100: in [0, 100]) and match_percentage and confidence are
\* in [0, 100].
C15_ScoresInRange ==
    FoundMatches =>
       \A m \in Returned_matches :
          /\ \A f \in 1..5 : InRange(m.factors[f], 0, 100)
          /\ InRange(m.match_percentage, 0, 100)
          /\ InRange(m.confidence, 0, 100)

\* C16: on a built index find_matches does not raise, whatever the profile
\* leaves out, and a profile with no location preference gets 0.7 for
\* location, one with no financial constraint 0.7 for finance and one with
\* neither interests nor target programs 0.5 for interest, on every candidate.
C16_NeutralDefaults ==
    mlast.op = "find_matches" /\ university_data # NoData =>
       /\ mlast.raised = ""
       /\ \A m \in Returned_matches :
             /\ mlast.student_profile.location_preferences = <<>>
                   => m.factors[3] = QInt(70)
             /\ mlast.student_profile.financial_constraints = None
                   => m.factors[4] = QInt(70)
             /\ (/\ mlast.student_profile.academic_interests = <<>>
                 /\ mlast.student_profile.target_programs = <<>>)
                   => m.factors[2] = QInt(50)

\* C17: get_similar_universities returns at most limit entries, none of them
\* the queried university; it returns the empty list for an id the index
\* does not have and for an index that holds the queried university only.
C17_SimilarExcludesQuery ==
    mlast.op = "get_similar_universities" =>
       /\ mlast.raised = ""
       /\ Len(mlast.similar) <= mlast.limit
       /\ \A i \in 1..Len(mlast.similar) :
             mlast.similar[i].university_id # mlast.university_id
       /\ mlast.university_id \notin Ids(Rows) => mlast.similar = <<>>
       /\ Ids(Rows) = {mlast.university_id} => mlast.similar = <<>>

\* C18: in every state a reader can run in, there is no index at all or the
\* table, the content vectors and the numeric vectors are those of one build.
C18_OneBuild ==
    /\ university_tfidf.build = university_data.build
    /\ university_numerical.build = university_data.build

\* ---------------------------------------------------------------- C19
\* C19: a cache write that fails is absorbed.  The background task of a
\* response that fails to store it raises nothing to the request: the
\* response stays the 200 with the computed ranking, the store is left as it
\* was (no partial entry), and SETEX is called once for the request (no
\* retry).  A failed cache_model_result or CacheManager.set raises nothing
\* and leaves the store as it was.
C19_FailedWriteAbsorbed ==
    [][ /\ \A t \in Tasks :
             /\ handler'[t].writes <= 1
             /\ (handler[t].write = "pending" /\ handler'[t].write = "failed")
                   => /\ redis_store' = redis_store
                      /\ handler'[t].response = handler[t].response
                      /\ handler'[t].response.status = 200
                      /\ \E below \in BOOLEAN :
                            handler'[t].response.matches =
                               _perform_university_matching(handler[t].request, below).matches
                      /\ handler'[t].at = "done"
        /\ (clast'.op \in {"cache_model_result", "CacheManager.set"}
              /\ (~clast'.ok \/ ~clast'.has_redis))
              => /\ redis_store' = redis_store
                 /\ clast'.raised = ""
        /\ (clast'.op = "CacheManager.set" /\ ~clast'.ok) => clast'.ret = <<FALSE>>
      ]_vars

\* a background write has failed after a 200 with a ranking, and the key of
\* the request holds nothing
C19_Witness ==
    \E t \in Tasks :
       /\ handler[t].write = "failed"
       /\ handler[t].writes = 1
       /\ handler[t].response.status = 200
       /\ handler[t].response.matches # <<>>
       /\ redis_store[cache_key(handler[t].request)] = NoValue

\* ---------------------------------------------------------------- C20
\* C20: a cache read that fails is a miss.  A handler whose redis.get raised
\* does not fail because of the cache: it answers what a miss answers, the
\* computed ranking when the matching returns one.
C20_ReadFailureIsMiss ==
    \A t \in Tasks :
       handler[t].read = "raised"
          => /\ handler[t].response.detail # "ConnectionError"
             /\ \E below \in BOOLEAN :
                   handler[t].response.matches =
                      _perform_university_matching(handler[t].request, below).matches

\* ---------------------------------------------------------------- C21
\* C21: every configured weight set sums to exactly 1: the five
\* feature_weights the matcher is constructed with and the four weights of
\* the university_matcher configuration; and the matcher's weights are in
\* every state those it was constructed with.
C21_WeightsSumToOne ==
    /\ matcher_weights = feature_weights
    /\ Len(matcher_weights) = 5
    /\ QSum(matcher_weights) = Q(1, 1)
    /\ QSum(MODEL_CONFIGS_weights) = Q(1, 1)

\* a ranking has been returned by an initialized matcher
C21_Witness ==
    /\ mlast.op = "find_matches"
    /\ mlast.matches # <<>>
    /\ university_data.build = 2
    /\ QSum(matcher_weights) = Q(1, 1)

\* ---------------------------------------------------------------- C22
\* C22: every returned match has the one category its reported
\* match_percentage and its candidate's acceptance_rate decide: safety from
\* 80 and 0.3 on, otherwise target from 60 and 0.15 on, otherwise reach, both
\* thresholds inclusive.
C22_CategoryFromPercentage ==
    FoundMatches =>
       \A m \in Returned_matches :
          LET acceptance_rate == Rows[Pos(m.university_id)].metadata.acceptance_rate
          IN m.category =
                IF QLe(QInt(80), m.match_percentage) /\ QLe(Q(3, 10), acceptance_rate)
                THEN "safety"
                ELSE IF QLe(QInt(60), m.match_percentage) /\ QLe(Q(15, 100), acceptance_rate)
                THEN "target"
                ELSE "reach"

\* ---------------------------------------------------------------- C23
\* C23: the confidence of every returned match is
\* ((studentCompleteness + candidateCompleteness) / 2) x consistencyFactor
\* x 100: 0.3 for a gpa that is present (0.0 included), 0.3 for test scores,
\* 0.2 for interests, 0.2 for extracurriculars; 0.4, 0.3, 0.3 for the
\* candidate's admission requirements, programs and metadata; and the larger
\* of 0.5 and 1 minus the variance of the five factor scores.
C23_Confidence ==
    FoundMatches =>
       \A m \in Returned_matches :
          LET p == mlast.student_profile
              u == Rows[Pos(m.university_id)]
              studentCompleteness ==
                  QSum(<<IF p.gpa # None THEN Q(3, 10) ELSE QInt(0),
                         IF Has(p.test_scores.SAT) \/ Has(p.test_scores.GRE)
                         THEN Q(3, 10) ELSE QInt(0),
                         IF p.academic_interests # <<>> THEN Q(2, 10) ELSE QInt(0),
                         IF p.extracurriculars # <<>> THEN Q(2, 10) ELSE QInt(0)>>)
              candidateCompleteness ==
                  QSum(<<Q(4, 10), IF u.programs # <<>> THEN Q(3, 10) ELSE QInt(0), Q(3, 10)>>)
              scores == [f \in 1..5 |-> QDiv(m.factors[f], QInt(100))]
              consistencyFactor == QMax(Q(5, 10), QSub(QInt(1), var(scores)))
          IN m.confidence =
                QMul(QMul(QDiv(QAdd(studentCompleteness, candidateCompleteness), QInt(2)),
                          consistencyFactor), QInt(100))

\* ---------------------------------------------------------------- C24
\* C24: the financial fit of every returned match is 0.7 when the profile
\* names no max_annual_cost (constraints absent, empty, or without that
\* entry); with a budget it is 1 - (tuition / budget) x 0.3 within [0.7, 1]
\* when tuition <= budget and max(0.1, budget / tuition) within [0.1, 1)
\* when tuition > budget; and find_matches raises no division error.
C24_FinancialFit ==
    /\ mlast.op = "find_matches" => mlast.raised # "ZeroDivisionError"
    /\ FoundMatches =>
          \A m \in Returned_matches :
             LET c == mlast.student_profile.financial_constraints
                 tuition == Rows[Pos(m.university_id)].metadata.tuition
                 financialFit == QDiv(m.factors[4], QInt(100))
             IN IF c = None \/ ~Has(c[1].max_annual_cost)
                THEN financialFit = Q(7, 10)
                ELSE LET maxBudget == c[1].max_annual_cost[1]
                     IN IF tuition <= maxBudget
                        THEN /\ financialFit = QSub(QInt(1), QMul(Q(tuition, maxBudget), Q(3, 10)))
                             /\ QLe(Q(7, 10), financialFit) /\ QLe(financialFit, QInt(1))
                        ELSE /\ financialFit = QMax(Q(1, 10), Q(maxBudget, tuition))
                             /\ QLe(Q(1, 10), financialFit) /\ QLt(financialFit, QInt(1))

C26_MostSimilarOthers ==
    (mlast.op = "get_similar_universities" /\ mlast.university_id \in Ids(Rows)) =>
       LET n == Len(Rows)
           similarities == similarities_to(university_tfidf, Pos(mlast.university_id))
           returned == {mlast.similar[i].university_id : i \in 1..Len(mlast.similar)}
           others == Ids(Rows) \ {mlast.university_id}
       IN /\ mlast.raised = ""
          /\ Len(mlast.similar) = IF mlast.limit < n - 1 THEN mlast.limit ELSE n - 1
          /\ Cardinality(returned) = Len(mlast.similar)
          /\ returned \subseteq others
          /\ \A i \in 1..Len(mlast.similar) :
                mlast.similar[i].similarity_score = similarities[Pos(mlast.similar[i].university_id)]
          /\ \A i, j \in 1..Len(mlast.similar) :
                i < j => QLe(mlast.similar[j].similarity_score, mlast.similar[i].similarity_score)
          /\ \A a \in returned, b \in others \ returned :
                QLe(similarities[Pos(b)], similarities[Pos(a)])

C28_ReloadNotAtomic ==
    [][ (last'.op = "reload" /\ model_metadata[last'.name] # NoMeta /\ last'.ret # "True") =>
           LET n == last'.name IN
           /\ last'.ret = "False"
           /\ loaded_models'[n] = NoModel
           /\ model_metadata'[n] = NoMeta
           /\ OthersSame(n)
           /\ \A available_mb \in MemLevels, hub_ok \in BOOLEAN :
                 LET again == reload_model(loaded_models', model_metadata', n,
                                           available_mb, hub_ok, now')
                 IN /\ again.ret = "False" /\ again.log = "not found"
                    /\ again.lm = loaded_models' /\ again.md = model_metadata'
      ]_vars

\* a reload of a model that had been used failed in its load step, another
\* model staying loaded
C28_Witness ==
    /\ last.op = "reload" /\ last.ret = "False" /\ last.log # "not found"
    /\ loaded_models[last.name] = NoModel /\ model_metadata[last.name] = NoMeta
    /\ Loaded(loaded_models) # {}

\* ---------------------------------------------------------------- C29
\* C29: the matching handler returns a match of category safety, target or
\* reach only when the request's include flag of that category is true; a
\* request with the three flags false is answered with no match.
C29_IncludeFlags ==
    \A t \in Tasks :
       LET request == handler[t].request
           response == handler[t].response
           included(category) ==
              \/ category = "safety" /\ request.include_safety
              \/ category = "target" /\ request.include_target
              \/ category = "reach" /\ request.include_reach
       IN response.status = 200 =>
             \A i \in 1..Len(response.matches) : included(response.matches[i].category)

\* ---------------------------------------------------------------- C30
\* C30: when ModelManager.initialize has returned without raising, every
\* enabled essential model is loaded: university_matcher always,
\* essay_analyzer when ENABLE_ESSAY_ANALYSIS, admission_predictor when
\* ENABLE_PREDICTIONS.
C30_EssentialsLoaded ==
    (boot.done /\ boot.raised = "") =>
       /\ loaded_models["university_matcher"] # NoModel
       /\ boot.ENABLE_ESSAY_ANALYSIS => loaded_models["essay_analyzer"] # NoModel
       /\ boot.ENABLE_PREDICTIONS => loaded_models["admission_predictor"] # NoModel

====
